---- MODULE Spec2Model ----
(***************************************************************************)
(* Model of the JavaScript extraction service (SmartConnect).              *)
(*                                                                         *)
(* The server is one Node.js event loop.  A state of the model is the      *)
(* in-memory store (MemStorage), the download directory, the promise-job   *)
(* (microtask) queue and, for every call of JSExtractor.extractJavaScript, *)
(* the place where it is suspended together with its local variables.      *)
(* Every action is one synchronous run of code: from the point where a     *)
(* handler or continuation is entered to the next await.  Continuations of *)
(* awaits on already settled promises (all MemStorage calls) and the       *)
(* addLog callbacks are jobs of the microtask queue, run in FIFO order     *)
(* before any I/O completion is delivered.                                 *)
(*                                                                         *)
(* Text is modelled as a sequence of one-character strings where the code  *)
(* inspects characters (file names, URL paths, src attributes).            *)
(***************************************************************************)
EXTENDS Integers, Sequences, FiniteSets, TLC

VARIABLES
    jobs,        \* MemStorage.jobs : job id -> ExtractionJob
    jsFiles,     \* MemStorage.jsFiles, grouped by jobId, insertion order
    disk,        \* downloads/<domain>/ : the files of each output directory
    microtasks,  \* promise job queue of the event loop (FIFO)
    pc,          \* per job id: where extractJavaScript is suspended
    loc,         \* per job id: local variables of extractJavaScript
    net,         \* per job id: the axios.get requests issued so far
    clock,       \* per job id: value the next new Date() returns
    written,     \* per job id: the files its fs.writeFile calls have written
    sanitized,   \* a call of safeFilename: its argument and its outcome
    discovered,  \* a call of findJsUrls: its arguments and its result
    called,      \* the last call of a MemStorage method and what it returned
    classified,  \* a caught failure value and the message a catch block gave it
    client       \* what the HTTP client was sent: POST replies, GET results

vars == <<jobs, jsFiles, disk, microtasks, pc, loc, net, clock, written,
          sanitized, discovered, called, classified, client>>

-----------------------------------------------------------------------------
(* Bounds and the environment's inputs                                     *)

\* a fetched resource has at most MaxSize bytes
MaxSize == 1

\* ids randomUUID may return
JobIds == {"j1", "j2"}

NoDate == 0
NoFile == [exists |-> FALSE, data |-> << >>]
File(content) == [exists |-> TRUE, data |-> content]
NoSize == -1
NoText == ""

\* page URLs accepted by the POST route (new URL(url) parses them)
RequestUrls ==
    { [scheme |-> "https", host |-> <<"a", ".", "t">>, path |-> <<"/">>,
       query |-> << >>] }

\* page URLs a caller may hand to extractJavaScript itself: the ones above,
\* a.t/ and http.t/ without a scheme, and ftp://a.t/
DirectUrls ==
    RequestUrls \cup
    { [scheme |-> NoText, host |-> <<"a", ".", "t">>, path |-> <<"/">>,
       query |-> << >>],
      [scheme |-> NoText, host |-> <<"h", "t", "t", "p", ".", "t">>,
       path |-> <<"/">>, query |-> << >>],
      [scheme |-> "ftp", host |-> <<"a", ".", "t">>, path |-> <<"/">>,
       query |-> << >>] }

\* bodies the page server may answer with: the src attribute values of the
\* script elements of the page, in document order
PageBodies ==
    { << >>,
      << <<"%", ".", "j", "s">> >>,
      << <<" ", "a", ".", "j", "s">>, <<"s", ".", "c", "s", "s">>,
         <<".", "/", "a", ".", "j", "s">>, <<"/", "/", "[">>,
         <<"B", ".", "J", "S">> >> }

\* failures axios.get may reject with
HttpError404 ==
    [hasResponse |-> TRUE, status |-> 404, statusText |-> "Not Found",
     message |-> "Request failed with status code 404", isError |-> TRUE]
TimeoutError ==
    [hasResponse |-> FALSE, status |-> 0, statusText |-> NoText,
     message |-> "timeout of 20000ms exceeded", isError |-> TRUE]
\* a response whose status line has no reason phrase
HttpError500 ==
    [hasResponse |-> TRUE, status |-> 500, statusText |-> NoText,
     message |-> "Request failed with status code 500", isError |-> TRUE]
FetchErrors == {HttpError404, HttpError500, TimeoutError}

\* failure fs.writeFile may reject with
WriteError ==
    [hasResponse |-> FALSE, status |-> 0, statusText |-> NoText,
     message |-> "ENOSPC: no space left on device, write", isError |-> TRUE]
\* failure fs.mkdir may reject with
MkdirError ==
    [hasResponse |-> FALSE, status |-> 0, statusText |-> NoText,
     message |-> "EACCES: permission denied, mkdir", isError |-> TRUE]
\* failure decodeURIComponent throws
URIError ==
    [hasResponse |-> FALSE, status |-> 0, statusText |-> NoText,
     message |-> "URI malformed", isError |-> TRUE]

\* bodies a script server may answer with (ASCII, so bytes = characters):
\* the empty body and the bodies x...x\n of at most MaxSize characters
Contents == {[k \in 1..n |-> IF k = n THEN "\n" ELSE "x"] : n \in 0..MaxSize}

-----------------------------------------------------------------------------
(* Text helpers                                                            *)

SeqToSet(s) == {s[k] : k \in DOMAIN s}

Min(S) == CHOOSE x \in S : \A y \in S : x <= y
Max(S) == CHOOSE x \in S : \A y \in S : x >= y

\* F(e), with e evaluated once
Let(e, F(_)) == CHOOSE y \in {F(x) : x \in {e}} : TRUE

\* the sequence F(k) for the indices k of the set K, in increasing order
PickSeq(K, F(_)) ==
    Let(K, LAMBDA indices :
        [i \in 1..Cardinality(indices) |->
            F(CHOOSE k \in indices :
                  Cardinality({m \in indices : m <= k}) = i)])

IsSpace(c) == c \in {" ", "\t", "\n"}

HexDigits == {"0", "1", "2", "3", "4", "5", "6", "7", "8", "9",
              "a", "b", "c", "d", "e", "f", "A", "B", "C", "D", "E", "F"}

ToLower(c) ==
    CASE c = "J" -> "j"
      [] c = "S" -> "s"
      [] c = "A" -> "a"
      [] c = "B" -> "b"
      [] c = "C" -> "c"
      [] OTHER -> c

\* String.prototype.toLowerCase
LowerCase(s) == [k \in 1..Len(s) |-> ToLower(s[k])]

\* String.prototype.endsWith
EndsWith(s, suffix) ==
    /\ Len(s) >= Len(suffix)
    /\ SubSeq(s, Len(s) - Len(suffix) + 1, Len(s)) = suffix

\* String.prototype.startsWith
StartsWith(s, prefix) ==
    /\ Len(s) >= Len(prefix)
    /\ SubSeq(s, 1, Len(prefix)) = prefix

\* String.prototype.trim
Trim(s) ==
    LET solid == {k \in DOMAIN s : ~IsSpace(s[k])}
    IN  IF solid = {} THEN << >> ELSE SubSeq(s, Min(solid), Max(solid))

\* position of the last occurrence of character c in s, 0 when there is none
LastIndexOf(s, c) == Max({0} \cup {k \in DOMAIN s : s[k] = c})

\* position of the first occurrence of character c in s, 0 when there is none
IndexOf(s, c) ==
    LET hits == {k \in DOMAIN s : s[k] = c}
    IN  IF hits = {} THEN 0 ELSE Min(hits)

Digit(n) ==
    CASE n = 0 -> "0" [] n = 1 -> "1" [] n = 2 -> "2" [] n = 3 -> "3"
      [] n = 4 -> "4" [] n = 5 -> "5" [] n = 6 -> "6" [] n = 7 -> "7"
      [] n = 8 -> "8" [] n = 9 -> "9"

RECURSIVE NatToStr(_)
\* Number.prototype.toString() of a non-negative integer
NatToStr(n) ==
    IF n < 10 THEN <<Digit(n)>> ELSE Append(NatToStr(n \div 10), Digit(n % 10))

\* String.prototype.padStart(width, c)
PadStart(s, width, c) ==
    IF Len(s) >= width THEN s
    ELSE [k \in 1..width |->
             IF k <= width - Len(s) THEN c ELSE s[k - (width - Len(s))]]

-----------------------------------------------------------------------------
(* JSExtractor.safeFilename                                                *)

\* the character a %XX escape stands for (escapes of the model's alphabet)
EscapeChar(h1, h2) ==
    CASE <<h1, h2>> = <<"2", "0">> -> " "
      [] <<h1, h2>> = <<"2", "F">> -> "/"
      [] <<h1, h2>> = <<"2", "f">> -> "/"
      [] <<h1, h2>> = <<"3", "A">> -> ":"
      [] <<h1, h2>> = <<"2", "5">> -> "%"
      [] <<h1, h2>> = <<"4", "1">> -> "A"
      [] <<h1, h2>> = <<"6", "1">> -> "a"
      [] <<h1, h2>> = <<"2", "2">> -> "\""
      [] <<h1, h2>> = <<"5", "2">> -> "R"
      [] <<h1, h2>> = <<"5", "5">> -> "U"
      [] <<h1, h2>> = <<"2", "a">> -> "*"
      [] <<h1, h2>> = <<"5", "a">> -> "Z"

\* decodeURIComponent returns (does not throw URIError) on s: every % is
\* followed by two hexadecimal digits that encode an ASCII character.  The
\* escape of a byte above 7F is accepted only inside a well-formed UTF-8
\* sequence, which starts with a byte C2..F4: no name of the model has one.
DecodeOk(s) ==
    \A k \in DOMAIN s :
        s[k] = "%" =>
            /\ k + 2 <= Len(s)
            /\ s[k + 1] \in {"0", "1", "2", "3", "4", "5", "6", "7"}
            /\ s[k + 2] \in HexDigits

\* the value decodeURIComponent returns where DecodeOk
DecodeURIComponent(s) ==
    PickSeq({k \in DOMAIN s :
                 /\ ~(k > 1 /\ s[k - 1] = "%")
                 /\ ~(k > 2 /\ s[k - 2] = "%")},
            LAMBDA k : IF s[k] = "%" THEN EscapeChar(s[k + 1], s[k + 2])
                       ELSE s[k])

ForbiddenChars == {":", "\\", "/", "<", ">", "?", "\"", "|", "*"}

\* name.replace(/[:\\/<>?"|*]/g, '_')
ReplaceForbidden(s) ==
    [k \in 1..Len(s) |-> IF s[k] \in ForbiddenChars THEN "_" ELSE s[k]]

\* CollapseSpace with the pattern /\s/g: one underscore per character
CollapseSpace_EachSpace(s) ==
    [k \in 1..Len(s) |-> IF IsSpace(s[k]) THEN "_" ELSE s[k]]

\* name.replace(/\s+/g, '_')
CollapseSpace(s) ==
    PickSeq({k \in DOMAIN s : ~(IsSpace(s[k]) /\ k > 1 /\ IsSpace(s[k - 1]))},
            LAMBDA k : IF IsSpace(s[k]) THEN "_" ELSE s[k])

\* safeFilename on a name decodeURIComponent accepts; it throws otherwise
safeFilename(name) ==
    Let(DecodeURIComponent(name), LAMBDA decoded :
    Let(ReplaceForbidden(decoded), LAMBDA replaced :
    Let(CollapseSpace(replaced), LAMBDA collapsed :
        IF collapsed = << >> THEN <<"f", "i", "l", "e">> ELSE collapsed)))

\* path.basename(pathname)
Basename(pathname) ==
    LET solid == {k \in DOMAIN pathname : pathname[k] # "/"}
        p == IF solid = {} THEN << >> ELSE SubSeq(pathname, 1, Max(solid))
    IN  SubSeq(p, LastIndexOf(p, "/") + 1, Len(p))

\* path.basename(new URL(jsUrl).pathname) || `script_${fileIndex}.js`
OriginalFilename(jsUrl, fileIndex) ==
    Let(Basename(jsUrl.path), LAMBDA basename :
        IF basename # << >> THEN basename
        ELSE <<"s", "c", "r", "i", "p", "t", "_">> \o NatToStr(fileIndex)
                 \o <<".", "j", "s">>)

\* LocalFilename without the index in front of the name
LocalFilename_NoIndex(jsUrl, fileIndex) ==
    Let(OriginalFilename(jsUrl, fileIndex), LAMBDA originalFilename :
        safeFilename(originalFilename))

\* `${fileIndex.toString().padStart(3, '0')}_${safeFilename}`
LocalFilename(jsUrl, fileIndex) ==
    Let(OriginalFilename(jsUrl, fileIndex), LAMBDA originalFilename :
        PadStart(NatToStr(fileIndex), 3, "0") \o <<"_">>
            \o safeFilename(originalFilename))

\* `failed_${fileIndex}.js`
FailedFilename(fileIndex) ==
    <<"f", "a", "i", "l", "e", "d", "_">> \o NatToStr(fileIndex)
        \o <<".", "j", "s">>

-----------------------------------------------------------------------------
(* JSExtractor.findJsUrls                                                  *)

\* A URL is the record of the components new URL() parses it into; the query
\* is kept with its leading ?, so that URL.toString() of two URLs is the same
\* string exactly when the records are equal.  References are relative paths
\* (with or without a leading ./), absolute paths and network-path references
\* //host/path, each with or without a query; they hold no dot segment, no
\* fragment and no scheme.

\* the part of a reference before its query
RefPath(src) ==
    IF IndexOf(src, "?") = 0 THEN src ELSE SubSeq(src, 1, IndexOf(src, "?") - 1)

\* the query of a reference, from its ? on
RefQuery(src) ==
    IF IndexOf(src, "?") = 0 THEN << >>
    ELSE SubSeq(src, IndexOf(src, "?"), Len(src))

IsNetworkPath(src) == StartsWith(src, <<"/", "/">>)

\* the authority of a network-path reference //authority/path
Authority(src) ==
    LET rest == SubSeq(RefPath(src), 3, Len(RefPath(src)))
        cut  == IndexOf(rest, "/")
    IN  IF cut = 0 THEN rest ELSE SubSeq(rest, 1, cut - 1)

\* new URL(src, baseUrl) does not throw
UrlParses(src) ==
    IsNetworkPath(src) =>
        /\ Authority(src) # << >>
        /\ SeqToSet(Authority(src)) \cap {"[", "]", " ", "<", ">", "%"} = {}

\* a relative path without its leading ./
RemoveLeadingDot(s) ==
    IF StartsWith(s, <<".", "/">>) THEN SubSeq(s, 3, Len(s)) ELSE s

\* new URL(src, baseUrl) where UrlParses(src)
ResolveUrl(src, baseUrl) ==
    IF IsNetworkPath(src)
    THEN LET rest == SubSeq(RefPath(src), 3, Len(RefPath(src)))
             cut  == IndexOf(rest, "/")
         IN  [scheme |-> baseUrl.scheme,
              host   |-> LowerCase(Authority(src)),
              path   |-> IF cut = 0 THEN <<"/">> ELSE SubSeq(rest, cut, Len(rest)),
              query  |-> RefQuery(src)]
    ELSE IF RefPath(src) = << >>
    THEN [baseUrl EXCEPT !.query = RefQuery(src)]
    ELSE IF src[1] = "/"
    THEN [baseUrl EXCEPT !.path = RefPath(src), !.query = RefQuery(src)]
    ELSE [baseUrl EXCEPT
             !.path = SubSeq(baseUrl.path, 1, LastIndexOf(baseUrl.path, "/"))
                          \o RemoveLeadingDot(RefPath(src)),
             !.query = RefQuery(src)]

\* Array.from(new Set(urls)): first occurrences, in order
Dedup(urls) ==
    PickSeq({k \in DOMAIN urls : \A m \in 1..(k - 1) : urls[m] # urls[k]},
            LAMBDA k : urls[k])

\* KeepsSrc that compares the extension without toLowerCase()
KeepsSrc_CaseSensitive(attr, baseUrl) ==
    \E src \in {Trim(attr)} :
        /\ src # << >>
        /\ UrlParses(src)
        /\ \E parsedUrl \in {ResolveUrl(src, baseUrl)} :
              EndsWith(parsedUrl.path, <<".", "j", "s">>)

\* the test of the .each callback: the src attribute is kept
KeepsSrc(attr, baseUrl) ==
    \E src \in {Trim(attr)} :
        /\ src # << >>
        /\ UrlParses(src)
        /\ \E parsedUrl \in {ResolveUrl(src, baseUrl)} :
              EndsWith(LowerCase(parsedUrl.path), <<".", "j", "s">>)

\* the urls array after the .each loop over the script[src] elements
CollectJsUrls(html, baseUrl) ==
    PickSeq({k \in DOMAIN html : KeepsSrc(html[k], baseUrl)},
            LAMBDA k : ResolveUrl(Trim(html[k]), baseUrl))

\* findJsUrls that returns the urls array as it is
findJsUrls_NoDedup(html, baseUrl) == CollectJsUrls(html, baseUrl)

findJsUrls(html, baseUrl) ==
    Let(CollectJsUrls(html, baseUrl), LAMBDA urls : Dedup(urls))

-----
(* Error classification of the two catch blocks                            *)

\* errorMsg of the per-resource catch: "HTTP <status> - <text>" when
\* status # 0, the bare text otherwise
ResourceErrorMsg(error) ==
    IF error.hasResponse
    THEN IF error.status # 0
         THEN [status |-> error.status,
               text   |-> IF error.statusText # NoText THEN error.statusText
                          ELSE "Request failed"]
         ELSE IF error.message # NoText
              THEN [status |-> 0, text |-> error.message]
              ELSE [status |-> 0, text |-> "Unknown error"]
    ELSE IF error.isError
         THEN [status |-> 0, text |-> error.message]
         ELSE [status |-> 0, text |-> "Unknown error"]

\* httpStatus of the per-resource catch: 0 stands for the literal ERROR
ResourceHttpStatus(error) ==
    IF error.hasResponse /\ error.status # 0 THEN error.status ELSE 0

\* errorMsg of the top-level catch; the HTTP message ends with
\* ` when fetching: ${url}`
JobErrorMsg(error) ==
    IF error.hasResponse
    THEN IF error.status # 0
         THEN [status |-> error.status,
               text   |-> IF error.statusText # NoText THEN error.statusText
                          ELSE "Request failed",
               whenFetching |-> TRUE]
         ELSE IF error.message # NoText
              THEN [status |-> 0, text |-> error.message, whenFetching |-> FALSE]
              ELSE [status |-> 0, text |-> "Unknown error occurred",
                    whenFetching |-> FALSE]
    ELSE IF error.isError
         THEN [status |-> 0, text |-> error.message, whenFetching |-> FALSE]
         ELSE [status |-> 0, text |-> "Unknown error occurred",
               whenFetching |-> FALSE]

NoMsg == [status |-> 0, text |-> NoText]

-----------------------------------------------------------------------------
(* MemStorage                                                              *)

\* { ...job, ...updates }
Merge(job, updates) ==
    [f \in DOMAIN job \cup DOMAIN updates |->
        IF f \in DOMAIN updates THEN updates[f] ELSE job[f]]

\* MemStorage.createExtractionJob with the payload's fields put after the
\* ones the store assigns
createExtractionJob_PayloadWins(store, id, insertJob, date) ==
    LET job == Merge([id |-> id,
                      status |-> "pending",
                      totalFiles |-> 0,
                      successfulFiles |-> 0,
                      failedFiles |-> 0,
                      totalSize |-> 0,
                      domain |-> insertJob.url.host,
                      logs |-> << >>,
                      createdAt |-> date,
                      completedAt |-> NoDate], insertJob)
    IN  [k \in DOMAIN store \cup {id} |-> IF k = id THEN job ELSE store[k]]

\* MemStorage.createExtractionJob: the map after this.jobs.set(id, job),
\* where job is { ...insertJob, id, status: "pending", ... }
createExtractionJob(store, id, insertJob, date) ==
    LET job == Merge(insertJob,
                     [id |-> id,
                      status |-> "pending",
                      totalFiles |-> 0,
                      successfulFiles |-> 0,
                      failedFiles |-> 0,
                      totalSize |-> 0,
                      domain |-> insertJob.url.host,
                      logs |-> << >>,
                      createdAt |-> date,
                      completedAt |-> NoDate])
    IN  [k \in DOMAIN store \cup {id} |-> IF k = id THEN job ELSE store[k]]

\* MemStorage.updateExtractionJob that stores the updates of an id it does
\* not have
updateExtractionJob_Upsert(store, id, updates) ==
    [k \in DOMAIN store \cup {id} |->
        IF k # id THEN store[k]
        ELSE IF id \in DOMAIN store THEN Merge(store[id], updates)
        ELSE updates]

\* MemStorage.updateExtractionJob that merges the updates into every job
updateExtractionJob_EveryJob(store, id, updates) ==
    IF id \notin DOMAIN store THEN store
    ELSE [k \in DOMAIN store |-> Merge(store[k], updates)]

\* MemStorage.updateExtractionJob that stores the updates in place of the job
updateExtractionJob_Replace(store, id, updates) ==
    IF id \notin DOMAIN store THEN store
    ELSE [store EXCEPT ![id] = Merge([id |-> @.id], updates)]

\* MemStorage.updateExtractionJob: the map after the call
updateExtractionJob(store, id, updates) ==
    IF id \notin DOMAIN store THEN store
    ELSE [store EXCEPT ![id] = Merge(@, updates)]

\* MemStorage.createJsFile: the rows after this.jsFiles.set(id, file)
createJsFile(files, insertFile) ==
    [files EXCEPT ![insertFile.jobId] = Append(@, insertFile)]

\* MemStorage.getJsFilesByJobId
getJsFilesByJobId(files, jobId) == files[jobId]

-----------------------------------------------------------------------------
(* Event loop                                                              *)

NoEntry == [timestamp |-> NoDate, type |-> NoText, message |-> NoText, n |-> 0]

\* the promise job of one addLog call: storage.getExtractionJob(jobId) has
\* read the job when addLog was called, the .then callback runs later
LogTask(store, jobId, date, type, message, n) ==
    [kind  |-> "log",
     job   |-> jobId,
     found |-> jobId \in DOMAIN store,
     logs  |-> IF jobId \in DOMAIN store THEN store[jobId].logs ELSE << >>,
     entry |-> [timestamp |-> date, type |-> type, message |-> message, n |-> n]]

\* the continuation of an await on a settled promise
ContTask(kind, jobId) ==
    [kind |-> kind, job |-> jobId, found |-> FALSE, logs |-> << >>,
     entry |-> NoEntry]

\* I/O completions are delivered only when no promise job is pending
Idle == microtasks = << >>

HeadIs(kind) == microtasks # << >> /\ Head(microtasks).kind = kind

-----------------------------------------------------------------------------
(* Local state of extractJavaScript and of the download directory          *)

\* url.startsWith('http'), on the text of the URL: its scheme if it has one,
\* its host otherwise
StartsWithHttp(url) ==
    IF url.scheme # NoText THEN url.scheme \in {"http", "https"}
    ELSE StartsWith(url.host, <<"h", "t", "t", "p">>)

\* the characters of a scheme name
SchemeText(scheme) ==
    CASE scheme = "ftp"   -> <<"f", "t", "p">>
      [] scheme = "http"  -> <<"h", "t", "t", "p">>
      [] scheme = "https" -> <<"h", "t", "t", "p", "s">>
      [] OTHER            -> << >>

\* if (!url.startsWith('http')) url = 'https://' + url, as new URL reads the
\* text: in https://ftp://a.t/ the host is ftp (with an empty port) and the
\* path is //a.t/
NormalizeUrl(url) ==
    IF StartsWithHttp(url) THEN url
    ELSE IF url.scheme = NoText THEN [url EXCEPT !.scheme = "https"]
    ELSE [scheme |-> "https",
          host   |-> SchemeText(url.scheme),
          path   |-> <<"/", "/">> \o url.host \o url.path,
          query  |-> url.query]

\* new URL(url) does not throw
PageUrlParses(url) == url.scheme # NoText /\ url.host # << >>

NoUrl == [scheme |-> NoText, host |-> << >>, path |-> << >>, query |-> << >>]
NoError == [hasResponse |-> FALSE, status |-> 0, statusText |-> NoText,
            message |-> NoText, isError |-> FALSE]
NoResponse == [status |-> 0, data |-> << >>]

InitLoc ==
    [url             |-> NoUrl,
     outputDir       |-> << >>,
     response        |-> NoResponse,
     jsUrls          |-> << >>,
     i               |-> 0,
     successCount    |-> 0,
     totalSize       |-> 0,
     combinedContent |-> << >>,
     manifestContent |-> << >>,
     jsResponse      |-> NoResponse,
     localFilename   |-> << >>,
     error           |-> NoError,
     dirError        |-> NoError]

EmptyDir == [page |-> NoFile, combined |-> NoFile, manifest |-> NoFile,
             files |-> {}]

Domains ==
    {NormalizeUrl(u).host : u \in {v \in DirectUrls : PageUrlParses(NormalizeUrl(v))}}

\* fs.writeFile of one resource file into a directory
WriteResource(dir, name, content) ==
    [dir EXCEPT !.files = {f \in @ : f.name # name}
                              \cup {[name |-> name, content |-> content]}]

\* fs.writeFile of job j has written the file: page.html, a resource file
\* under its local name, all_js_combined.txt or manifest.txt
Wrote(j, kind, name) ==
    written' = [written EXCEPT ![j] = @ \cup {[kind |-> kind, name |-> name]}]

\* one line of manifest.txt
ManifestLine(kind, n, url, tag, filename, errorMsg) ==
    [kind |-> kind, n |-> n, url |-> url, tag |-> tag,
     filename |-> filename, errorMsg |-> errorMsg]

\* `Source page: ${url}\nNumber of .js files: ${jsUrls.length}\n\n`
ManifestHeader(url, count) ==
    << ManifestLine("source", 0, url, NoText, << >>, NoMsg),
       ManifestLine("count", count, NoUrl, NoText, << >>, NoMsg),
       ManifestLine("blank", 0, NoUrl, NoText, << >>, NoMsg) >>

\* the section of all_js_combined.txt of a fetched resource
ContentSection(fileIndex, jsUrl, status, contentText) ==
    [fileIndex  |-> fileIndex,
     url        |-> jsUrl,
     httpStatus |-> [literal |-> NoText, code |-> status],
     body       |-> contentText
                      \o (IF EndsWith(contentText, <<"\n">>) THEN << >>
                          ELSE <<"\n">>)
                      \o <<"\n", "\n">>,
     errorMsg   |-> NoMsg]

\* ErrorSection that shows ERROR whatever the failure carries
ErrorSection_AlwaysError(fileIndex, jsUrl, error) ==
    [fileIndex  |-> fileIndex,
     url        |-> jsUrl,
     httpStatus |-> [literal |-> "ERROR", code |-> 0],
     body       |-> << >>,
     errorMsg   |-> ResourceErrorMsg(error)]

\* the section of all_js_combined.txt of a resource that was not fetched
ErrorSection(fileIndex, jsUrl, error) ==
    [fileIndex  |-> fileIndex,
     url        |-> jsUrl,
     httpStatus |-> IF ResourceHttpStatus(error) # 0
                    THEN [literal |-> "HTTP", code |-> ResourceHttpStatus(error)]
                    ELSE [literal |-> "ERROR", code |-> 0],
     body       |-> << >>,
     errorMsg   |-> ResourceErrorMsg(error)]

TypeOK ==
    /\ DOMAIN jobs \subseteq JobIds
    /\ \A j \in DOMAIN jobs :
          /\ jobs[j].status \in {"pending", "processing", "completed", "failed"}
          /\ jobs[j].totalFiles \in Nat
          /\ jobs[j].successfulFiles \in Nat
          /\ jobs[j].failedFiles \in Nat
          /\ jobs[j].totalSize \in Nat
    /\ DOMAIN jsFiles = JobIds
    /\ DOMAIN disk = Domains
    /\ DOMAIN pc = JobIds
    /\ DOMAIN loc = JobIds

\* no method of the store has been called from outside
NoStoreCall ==
    [method |-> "none", id |-> NoText, payload |-> [none |-> TRUE],
     raised |-> FALSE, found |-> FALSE, job |-> [none |-> TRUE]]

\* no reply to a rejected POST has been sent
NoReply == [code |-> 0, message |-> NoText, url |-> NoUrl, valid |-> TRUE]

\* the client has sent nothing: per job id, the status in the body of the
\* POST reply that announced the job and the status its last GET returned
NoTraffic ==
    [replied |-> [j \in JobIds |-> "none"],
     rejected |-> NoReply,
     observed |-> [j \in JobIds |-> "none"]]

\* the server after construction: an empty store, nothing running
InitServer ==
    /\ client = NoTraffic
    /\ called = NoStoreCall
    /\ jobs = << >>
    /\ jsFiles = [j \in JobIds |-> << >>]
    /\ disk = [d \in Domains |-> EmptyDir]
    /\ microtasks = << >>
    /\ pc = [j \in JobIds |-> "idle"]
    /\ loc = [j \in JobIds |-> InitLoc]
    /\ net = [j \in JobIds |-> << >>]
    /\ clock = [j \in JobIds |-> 1]
    /\ written = [j \in JobIds |-> {}]

NoCall == [name |-> << >>, outcome |-> "idle", result |-> << >>]
NoDiscovery == [html |-> << >>, baseUrl |-> NoUrl, outcome |-> "idle",
                urls |-> << >>]
NoClassification ==
    [error |-> NoError, catch |-> "none",
     msg |-> [status |-> 0, text |-> NoText, whenFetching |-> FALSE]]

Init ==
    /\ InitServer
    /\ sanitized = NoCall
    /\ discovered = NoDiscovery
    /\ classified = NoClassification

-----------------------------------------------------------------------------
(* POST /api/extraction-jobs                                               *)

\* randomUUID() returns an id no job has
IsFreshId(id) ==
    /\ id \notin DOMAIN jobs
    /\ \A k \in DOMAIN jobs : jobs[k].id # id

\* the handler up to `await storage.createExtractionJob(validatedData)`
PostExtractionJob(id, url) ==
    /\ Idle
    /\ IsFreshId(id)
    /\ jobs' = createExtractionJob(jobs, id, [url |-> url], clock[id])
    /\ microtasks' = <<ContTask("route", id)>>
    /\ clock' = [clock EXCEPT ![id] = @ + 1]
    /\ UNCHANGED <<jsFiles, disk, pc, loc, net, written, sanitized, discovered, called, classified, client>>

\* StartExtraction that answers without calling extractJavaScript
StartExtraction_ReplyOnly ==
    /\ HeadIs("route")
    /\ LET j == Head(microtasks).job IN
          /\ pc[j] = "idle"
          /\ microtasks' = Tail(microtasks)
          /\ client' = [client EXCEPT !.replied[j] = jobs[j].status]
    /\ UNCHANGED <<jobs, pc, loc, jsFiles, disk, net, clock, written, sanitized, discovered, called, classified>>

\* StartExtraction without the update to processing
StartExtraction_SkipProcessing ==
    /\ HeadIs("route")
    /\ LET j == Head(microtasks).job IN
          /\ pc[j] = "idle"
          /\ loc' = [loc EXCEPT ![j].url = jobs[j].url]
          /\ pc' = [pc EXCEPT ![j] = "afterProcessing"]
          /\ microtasks' = Append(Tail(microtasks), ContTask("cont", j))
          /\ client' = [client EXCEPT !.replied[j] = jobs[j].status]
    /\ UNCHANGED <<jobs, jsFiles, disk, net, clock, written, sanitized, discovered, called, classified>>

\* the rest of the handler: jsExtractor.extractJavaScript(job.id, job.url)
\* runs up to its first await, then res.json(job)
StartExtraction ==
    /\ HeadIs("route")
    /\ LET j == Head(microtasks).job IN
          /\ pc[j] = "idle"
          /\ jobs' = updateExtractionJob(jobs, j, [status |-> "processing"])
          /\ loc' = [loc EXCEPT ![j].url = jobs[j].url]
          /\ pc' = [pc EXCEPT ![j] = "afterProcessing"]
          /\ microtasks' = Append(Tail(microtasks), ContTask("cont", j))
          /\ client' = [client EXCEPT !.replied[j] = jobs[j].status]
    /\ UNCHANGED <<jsFiles, disk, net, clock, written, sanitized, discovered, called, classified>>

-----------------------------------------------------------------------------
(* JSExtractor.addLog, the .then callback                                  *)

\* RunLogCallback that puts the new entry in front of the stored ones
RunLogCallback_Prepend ==
    /\ HeadIs("log")
    /\ LET t == Head(microtasks) IN
          jobs' = IF t.found
                  THEN updateExtractionJob(jobs, t.job,
                                           [logs |-> <<t.entry>> \o t.logs])
                  ELSE jobs
    /\ microtasks' = Tail(microtasks)
    /\ UNCHANGED <<jsFiles, disk, pc, loc, net, clock, written, sanitized, discovered, called, classified, client>>

\* RunLogCallback that writes the status back together with the logs
RunLogCallback_WritesStatus ==
    /\ HeadIs("log")
    /\ LET t == Head(microtasks) IN
          jobs' = IF t.found
                  THEN updateExtractionJob(jobs, t.job,
                                           [logs |-> Append(t.logs, t.entry),
                                            status |-> "processing"])
                  ELSE jobs
    /\ microtasks' = Tail(microtasks)
    /\ UNCHANGED <<jsFiles, disk, pc, loc, net, clock, written, sanitized, discovered, called, classified, client>>

RunLogCallback ==
    /\ HeadIs("log")
    /\ LET t == Head(microtasks) IN
          jobs' = IF t.found
                  THEN updateExtractionJob(jobs, t.job,
                                           [logs |-> Append(t.logs, t.entry)])
                  ELSE jobs
    /\ microtasks' = Tail(microtasks)
    /\ UNCHANGED <<jsFiles, disk, pc, loc, net, clock, written, sanitized, discovered, called, classified, client>>

-----------------------------------------------------------------------------
(* JSExtractor.extractJavaScript                                           *)

Resumes(j, at) ==
    /\ HeadIs("cont")
    /\ Head(microtasks).job = j
    /\ pc[j] = at

Completes(j, at) ==
    /\ Idle
    /\ pc[j] = at

\* every new Date() of a run returns a later value than the one before; a
\* run calls it at most three times
Tick(j) == clock' = [clock EXCEPT ![j] = @ + 3]

\* CatchTop that logs the failure but leaves the job record alone
CatchTop_NoStatus(j, error, queue, now) ==
    /\ jobs' = jobs
    /\ microtasks' = queue \o
          << LogTask(jobs, j, now, "error", "Extraction failed", 0),
             ContTask("cont", j) >>
    /\ pc' = [pc EXCEPT ![j] = "afterFailed"]
    /\ Tick(j)

\* CatchTop that sets the status but not completedAt
CatchTop_NoCompletedAt(j, error, queue, now) ==
    /\ jobs' = updateExtractionJob(jobs, j, [status |-> "failed"])
    /\ microtasks' = queue \o
          << LogTask(jobs, j, now, "error", "Extraction failed", 0),
             ContTask("cont", j) >>
    /\ pc' = [pc EXCEPT ![j] = "afterFailed"]
    /\ Tick(j)

\* the top-level catch block, entered with the promise jobs `queue` pending
\* when new Date() returns `now`
CatchTop(j, error, queue, now) ==
    /\ jobs' = updateExtractionJob(jobs, j,
                   [status |-> "failed", completedAt |-> now + 1])
    /\ microtasks' = queue \o
          << LogTask(jobs, j, now, "error", "Extraction failed", 0),
             ContTask("cont", j) >>
    /\ pc' = [pc EXCEPT ![j] = "afterFailed"]
    /\ Tick(j)

\* the head of the for loop, entered with locals l and promise jobs `queue`
\* when new Date() returns `now`
LoopHead(j, l, queue, now) ==
    IF l.i < Len(l.jsUrls)
    THEN /\ microtasks' = Append(queue,
                LogTask(jobs, j, now, "progress", "[i/n] url", l.i + 1))
         /\ net' = [net EXCEPT ![j] = Append(@, l.jsUrls[l.i + 1])]
         /\ pc' = [pc EXCEPT ![j] = "jsFetch"]
    ELSE /\ microtasks' = queue
         /\ net' = net
         /\ pc' = [pc EXCEPT ![j] = "combinedWrite"]

\* lines 81-92: log, normalize and parse the URL, create the directory
AfterProcessing(j) ==
    /\ Resumes(j, "afterProcessing")
    /\ LET url   == NormalizeUrl(loc[j].url)
           queue == Append(Tail(microtasks),
                       LogTask(jobs, j, clock[j], "info", "Starting extraction", 0))
       IN  IF PageUrlParses(url)
           THEN /\ loc' = [loc EXCEPT ![j].url = url, ![j].outputDir = url.host]
                /\ microtasks' = queue
                /\ pc' = [pc EXCEPT ![j] = "mkdir"]
                /\ Tick(j)
                /\ UNCHANGED jobs
           ELSE /\ loc' = [loc EXCEPT ![j].url = url,
                                      ![j].error = [NoError EXCEPT
                                           !.message = "Invalid URL",
                                           !.isError = TRUE]]
                /\ CatchTop(j, loc'[j].error, queue, clock[j] + 1)
    /\ UNCHANGED <<jsFiles, disk, net, written, sanitized, discovered, called, classified, client>>

\* lines 92-100: fs.mkdir settled (its failure is ignored); log twice and
\* request the page
MkdirDone(j) ==
    /\ Completes(j, "mkdir")
    /\ microtasks' =
          << LogTask(jobs, j, clock[j], "info", "Created download directory", 0),
             LogTask(jobs, j, clock[j] + 1, "info", "Fetching page", 0) >>
    /\ net' = [net EXCEPT ![j] = Append(@, loc[j].url)]
    /\ pc' = [pc EXCEPT ![j] = "pageFetch"]
    /\ Tick(j)
    /\ UNCHANGED <<jobs, jsFiles, disk, loc, written, sanitized, discovered, called, classified, client>>

\* lines 30-36 and 93-100: fs.mkdir rejected; the catch block of
\* ensureDirectoryExists drops the error (dirError keeps it for the record)
\* and the run goes on as after a created directory
MkdirFail(j) ==
    /\ Completes(j, "mkdir")
    /\ loc' = [loc EXCEPT ![j].dirError = MkdirError]
    /\ microtasks' =
          << LogTask(jobs, j, clock[j], "info", "Created download directory", 0),
             LogTask(jobs, j, clock[j] + 1, "info", "Fetching page", 0) >>
    /\ net' = [net EXCEPT ![j] = Append(@, loc[j].url)]
    /\ pc' = [pc EXCEPT ![j] = "pageFetch"]
    /\ Tick(j)
    /\ UNCHANGED <<jobs, jsFiles, disk, written, sanitized, discovered, called, classified, client>>

\* lines 97-104: the page arrived; write page.html
PageFetchOk(j, body) ==
    /\ Completes(j, "pageFetch")
    /\ loc' = [loc EXCEPT ![j].response = [status |-> 200, data |-> body]]
    /\ pc' = [pc EXCEPT ![j] = "pageWrite"]
    /\ Tick(j)
    /\ UNCHANGED <<jobs, jsFiles, disk, microtasks, net, written, sanitized, discovered, called, classified, client>>

\* PageFetchFail that treats the rejected request as a page without scripts
PageFetchFail_AsEmptyPage(j, error) ==
    /\ Completes(j, "pageFetch")
    /\ loc' = [loc EXCEPT ![j].error = error]
    /\ jobs' = updateExtractionJob(jobs, j,
                   [status |-> "completed", totalFiles |-> 0,
                    completedAt |-> clock[j] + 1])
    /\ microtasks' =
          << LogTask(jobs, j, clock[j], "info", "No external .js files found.", 0),
             ContTask("cont", j) >>
    /\ pc' = [pc EXCEPT ![j] = "afterZero"]
    /\ Tick(j)
    /\ UNCHANGED <<jsFiles, disk, net, written, sanitized, discovered, called, classified, client>>

\* lines 97, 243-262: the page request failed
PageFetchFail(j, error) ==
    /\ Completes(j, "pageFetch")
    /\ loc' = [loc EXCEPT ![j].error = error]
    /\ CatchTop(j, error, << >>, clock[j])
    /\ UNCHANGED <<jsFiles, disk, net, written, sanitized, discovered, called, classified, client>>

\* PageWriteOk that reports a page without scripts as a failure
PageWriteOk_ZeroFails(j) ==
    /\ Completes(j, "pageWrite")
    /\ \E jsUrls \in {findJsUrls(loc[j].response.data, loc[j].url)} :
       LET l      == loc[j]
           saved  == LogTask(jobs, j, clock[j], "success", "Saved page HTML", 0)
       IN  /\ disk' = [disk EXCEPT ![l.outputDir].page = File(l.response.data)]
           /\ loc' = [loc EXCEPT ![j].jsUrls = jsUrls]
           /\ IF Len(jsUrls) = 0
              THEN /\ microtasks' =
                        << saved,
                           LogTask(jobs, j, clock[j] + 1, "error",
                                   "No external .js files found.", 0),
                           ContTask("cont", j) >>
                   /\ jobs' = updateExtractionJob(jobs, j,
                                 [status |-> "failed", totalFiles |-> 0,
                                  completedAt |-> clock[j] + 2])
                   /\ pc' = [pc EXCEPT ![j] = "afterZero"]
              ELSE /\ microtasks' =
                        << saved,
                           LogTask(jobs, j, clock[j] + 1, "success",
                                   "Found n .js files", Len(jsUrls)),
                           ContTask("cont", j) >>
                   /\ jobs' = updateExtractionJob(jobs, j,
                                 [totalFiles |-> Len(jsUrls)])
                   /\ pc' = [pc EXCEPT ![j] = "afterTotal"]
    /\ Tick(j)
    /\ Wrote(j, "page", << >>)
    /\ UNCHANGED <<jsFiles, net, sanitized, discovered, called, classified, client>>

\* lines 104-121: page.html written; discover the script URLs
PageWriteOk(j) ==
    /\ Completes(j, "pageWrite")
    /\ \E jsUrls \in {findJsUrls(loc[j].response.data, loc[j].url)} :
       LET l      == loc[j]
           saved  == LogTask(jobs, j, clock[j], "success", "Saved page HTML", 0)
       IN  /\ disk' = [disk EXCEPT ![l.outputDir].page = File(l.response.data)]
           /\ loc' = [loc EXCEPT ![j].jsUrls = jsUrls]
           /\ IF Len(jsUrls) = 0
              THEN /\ microtasks' =
                        << saved,
                           LogTask(jobs, j, clock[j] + 1, "info",
                                   "No external .js files found.", 0),
                           ContTask("cont", j) >>
                   /\ jobs' = updateExtractionJob(jobs, j,
                                 [status |-> "completed", totalFiles |-> 0,
                                  completedAt |-> clock[j] + 2])
                   /\ pc' = [pc EXCEPT ![j] = "afterZero"]
              ELSE /\ microtasks' =
                        << saved,
                           LogTask(jobs, j, clock[j] + 1, "success",
                                   "Found n .js files", Len(jsUrls)),
                           ContTask("cont", j) >>
                   /\ jobs' = updateExtractionJob(jobs, j,
                                 [totalFiles |-> Len(jsUrls)])
                   /\ pc' = [pc EXCEPT ![j] = "afterTotal"]
    /\ Tick(j)
    /\ Wrote(j, "page", << >>)
    /\ UNCHANGED <<jsFiles, net, sanitized, discovered, called, classified, client>>

\* lines 104, 243-262: writing page.html failed
PageWriteFail(j) ==
    /\ Completes(j, "pageWrite")
    /\ loc' = [loc EXCEPT ![j].error = WriteError]
    /\ CatchTop(j, WriteError, << >>, clock[j])
    /\ UNCHANGED <<jsFiles, disk, net, written, sanitized, discovered, called, classified, client>>

\* lines 112-117: return of the zero-resource branch
AfterZero(j) ==
    /\ Resumes(j, "afterZero")
    /\ microtasks' = Tail(microtasks)
    /\ pc' = [pc EXCEPT ![j] = "done"]
    /\ UNCHANGED <<jobs, jsFiles, disk, loc, net, clock, written, sanitized, discovered, called, classified, client>>

\* lines 121-145: prepare the buffers and enter the loop
AfterTotal(j) ==
    /\ Resumes(j, "afterTotal")
    /\ LET l == [loc[j] EXCEPT
                    !.combinedContent = << >>,
                    !.manifestContent = ManifestHeader(loc[j].url, Len(loc[j].jsUrls)),
                    !.successCount = 0,
                    !.totalSize = 0,
                    !.i = 0]
       IN  /\ loc' = [loc EXCEPT ![j] = l]
           /\ LoopHead(j, l, Tail(microtasks), clock[j])
    /\ Tick(j)
    /\ UNCHANGED <<jobs, jsFiles, disk, written, sanitized, discovered, called, classified, client>>

\* CatchResource that rethrows: the failure reaches the top-level catch
CatchResource_Abort(j, l, error) ==
    /\ loc' = [loc EXCEPT ![j] = [l EXCEPT !.error = error]]
    /\ jsFiles' = jsFiles
    /\ jobs' = updateExtractionJob(jobs, j,
                   [status |-> "failed", completedAt |-> clock[j] + 1])
    /\ microtasks' =
          << LogTask(jobs, j, clock[j], "error", "Extraction failed", 0),
             ContTask("cont", j) >>
    /\ pc' = [pc EXCEPT ![j] = "afterFailed"]

\* CatchResource that records no outcome row
CatchResource_NoRow(j, l, error) ==
    /\ loc' = [loc EXCEPT ![j] = [l EXCEPT !.error = error]]
    /\ jsFiles' = jsFiles
    /\ jobs' = jobs
    /\ microtasks' = <<ContTask("cont", j)>>
    /\ pc' = [pc EXCEPT ![j] = "afterFailedRow"]

\* CatchResource that gives a timed-out request the status timeout
CatchResource_TimeoutStatus(j, l, error) ==
    /\ loc' = [loc EXCEPT ![j] = [l EXCEPT !.error = error]]
    /\ jsFiles' = createJsFile(jsFiles,
          [jobId        |-> j,
           originalUrl  |-> loc[j].jsUrls[loc[j].i + 1],
           filename     |-> FailedFilename(loc[j].i + 1),
           size         |-> NoSize,
           status       |-> IF error = TimeoutError THEN "timeout" ELSE "failed",
           errorMessage |-> ResourceErrorMsg(error)])
    /\ jobs' = jobs
    /\ microtasks' = <<ContTask("cont", j)>>
    /\ pc' = [pc EXCEPT ![j] = "afterFailedRow"]

\* the per-resource catch block up to `await storage.createJsFile`, entered
\* with locals l
CatchResource(j, l, error) ==
    /\ loc' = [loc EXCEPT ![j] = [l EXCEPT !.error = error]]
    /\ jsFiles' = createJsFile(jsFiles,
          [jobId        |-> j,
           originalUrl  |-> loc[j].jsUrls[loc[j].i + 1],
           filename     |-> FailedFilename(loc[j].i + 1),
           size         |-> NoSize,
           status       |-> "failed",
           errorMessage |-> ResourceErrorMsg(error)])
    /\ jobs' = jobs
    /\ microtasks' = <<ContTask("cont", j)>>
    /\ pc' = [pc EXCEPT ![j] = "afterFailedRow"]

\* lines 141-157: the resource arrived; name it and write it
JsFetchOk(j, content) ==
    /\ Completes(j, "jsFetch")
    /\ LET l         == loc[j]
           fileIndex == l.i + 1
           jsUrl     == l.jsUrls[fileIndex]
       IN  IF \E name \in {OriginalFilename(jsUrl, fileIndex)} : DecodeOk(name)
           THEN /\ loc' = [loc EXCEPT
                      ![j].jsResponse = [status |-> 200, data |-> content],
                      ![j].localFilename = LocalFilename(jsUrl, fileIndex)]
                /\ pc' = [pc EXCEPT ![j] = "jsWrite"]
                /\ UNCHANGED <<jobs, jsFiles, microtasks>>
           ELSE CatchResource(j,
                    [l EXCEPT !.jsResponse = [status |-> 200, data |-> content]],
                    URIError)
    /\ Tick(j)
    /\ UNCHANGED <<disk, net, written, sanitized, discovered, called, classified, client>>

\* lines 141, 188-212: the resource request failed
JsFetchFail(j, error) ==
    /\ Completes(j, "jsFetch")
    /\ CatchResource(j, loc[j], error)
    /\ Tick(j)
    /\ UNCHANGED <<disk, net, written, sanitized, discovered, called, classified, client>>

\* JsWriteOk that goes on without recording the outcome row
JsWriteOk_NoRow(j) ==
    /\ Completes(j, "jsWrite")
    /\ disk' = [disk EXCEPT ![loc[j].outputDir] =
                   WriteResource(@, loc[j].localFilename, loc[j].jsResponse.data)]
    /\ microtasks' = <<ContTask("cont", j)>>
    /\ pc' = [pc EXCEPT ![j] = "afterSuccessRow"]
    /\ Tick(j)
    /\ Wrote(j, "resource", loc[j].localFilename)
    /\ UNCHANGED <<jobs, jsFiles, loc, net, sanitized, discovered, called, classified, client>>

\* lines 157-167: the resource file is written; record the outcome
JsWriteOk(j) ==
    /\ Completes(j, "jsWrite")
    /\ LET l == loc[j] IN
          /\ disk' = [disk EXCEPT ![l.outputDir] =
                         WriteResource(@, l.localFilename, l.jsResponse.data)]
          /\ jsFiles' = createJsFile(jsFiles,
                [jobId        |-> j,
                 originalUrl  |-> l.jsUrls[l.i + 1],
                 filename     |-> l.localFilename,
                 size         |-> Len(l.jsResponse.data),
                 status       |-> "success",
                 errorMessage |-> NoMsg])
    /\ microtasks' = <<ContTask("cont", j)>>
    /\ pc' = [pc EXCEPT ![j] = "afterSuccessRow"]
    /\ Tick(j)
    /\ Wrote(j, "resource", loc[j].localFilename)
    /\ UNCHANGED <<jobs, loc, net, sanitized, discovered, called, classified, client>>

\* lines 157, 188-212: writing the resource file failed
JsWriteFail(j) ==
    /\ Completes(j, "jsWrite")
    /\ CatchResource(j, loc[j], WriteError)
    /\ Tick(j)
    /\ UNCHANGED <<disk, net, written, sanitized, discovered, called, classified, client>>

\* lines 169-186, 134-141: buffers, counters, log, next iteration
AfterSuccessRow(j) ==
    /\ Resumes(j, "afterSuccessRow")
    /\ LET l0        == loc[j]
           fileIndex == l0.i + 1
           jsUrl     == l0.jsUrls[fileIndex]
           l == [l0 EXCEPT
                   !.combinedContent = Append(@,
                        ContentSection(fileIndex, jsUrl, l0.jsResponse.status,
                                       l0.jsResponse.data)),
                   !.manifestContent = Append(@,
                        ManifestLine("data", fileIndex, jsUrl, "OK",
                                     l0.localFilename, NoMsg)),
                   !.successCount = @ + 1,
                   !.totalSize = @ + Len(l0.jsResponse.data),
                   !.jsResponse = NoResponse,
                   !.localFilename = << >>,
                   !.i = @ + 1]
       IN  /\ loc' = [loc EXCEPT ![j] = l]
           /\ LoopHead(j, l, Append(Tail(microtasks),
                  LogTask(jobs, j, clock[j], "success", "Saved", fileIndex)),
                  clock[j] + 1)
    /\ Tick(j)
    /\ UNCHANGED <<jobs, jsFiles, disk, written, sanitized, discovered, called, classified, client>>

\* AfterFailedRow that adds no section to the combined buffer
AfterFailedRow_NoSection(j) ==
    /\ Resumes(j, "afterFailedRow")
    /\ LET l0        == loc[j]
           fileIndex == l0.i + 1
           jsUrl     == l0.jsUrls[fileIndex]
           l == [l0 EXCEPT
                   !.manifestContent = Append(@,
                        ManifestLine("data", fileIndex, jsUrl, "ERROR",
                                     << >>, ResourceErrorMsg(l0.error))),
                   !.jsResponse = NoResponse,
                   !.localFilename = << >>,
                   !.i = @ + 1]
       IN  /\ loc' = [loc EXCEPT ![j] = l]
           /\ LoopHead(j, l, Append(Tail(microtasks),
                  LogTask(jobs, j, clock[j], "error", "Error", fileIndex)),
                  clock[j] + 1)
    /\ Tick(j)
    /\ UNCHANGED <<jobs, jsFiles, disk, written, sanitized, discovered, called, classified, client>>

\* lines 214-224, 134-141: error section, manifest line, log, next iteration
AfterFailedRow(j) ==
    /\ Resumes(j, "afterFailedRow")
    /\ LET l0        == loc[j]
           fileIndex == l0.i + 1
           jsUrl     == l0.jsUrls[fileIndex]
           l == [l0 EXCEPT
                   !.combinedContent = Append(@,
                        ErrorSection(fileIndex, jsUrl, l0.error)),
                   !.manifestContent = Append(@,
                        ManifestLine("data", fileIndex, jsUrl, "ERROR",
                                     << >>, ResourceErrorMsg(l0.error))),
                   !.jsResponse = NoResponse,
                   !.localFilename = << >>,
                   !.i = @ + 1]
       IN  /\ loc' = [loc EXCEPT ![j] = l]
           /\ LoopHead(j, l, Append(Tail(microtasks),
                  LogTask(jobs, j, clock[j], "error", "Error", fileIndex)),
                  clock[j] + 1)
    /\ Tick(j)
    /\ UNCHANGED <<jobs, jsFiles, disk, written, sanitized, discovered, called, classified, client>>

\* CombinedWriteOk that goes on to the manifest without writing the file
CombinedWriteOk_NoWrite(j) ==
    /\ Completes(j, "combinedWrite")
    /\ pc' = [pc EXCEPT ![j] = "manifestWrite"]
    /\ Tick(j)
    /\ UNCHANGED <<jobs, jsFiles, disk, microtasks, loc, net, written, sanitized, discovered, called, classified, client>>

\* lines 229-230: all_js_combined.txt written; write manifest.txt
CombinedWriteOk(j) ==
    /\ Completes(j, "combinedWrite")
    /\ disk' = [disk EXCEPT ![loc[j].outputDir].combined =
                       File(loc[j].combinedContent)]
    /\ pc' = [pc EXCEPT ![j] = "manifestWrite"]
    /\ Tick(j)
    /\ Wrote(j, "combined", << >>)
    /\ UNCHANGED <<jobs, jsFiles, microtasks, loc, net, sanitized, discovered, called, classified, client>>

\* lines 229, 243-262: writing all_js_combined.txt failed
CombinedWriteFail(j) ==
    /\ Completes(j, "combinedWrite")
    /\ loc' = [loc EXCEPT ![j].error = WriteError]
    /\ CatchTop(j, WriteError, << >>, clock[j])
    /\ UNCHANGED <<jsFiles, disk, net, written, sanitized, discovered, called, classified, client>>

\* ManifestWriteOk that leaves totalSize out of the final update
ManifestWriteOk_NoTotalSize(j) ==
    /\ Completes(j, "manifestWrite")
    /\ LET l == loc[j] IN
          /\ disk' = [disk EXCEPT ![l.outputDir].manifest =
                             File(l.manifestContent)]
          /\ jobs' = updateExtractionJob(jobs, j,
                [status          |-> "completed",
                 successfulFiles |-> l.successCount,
                 failedFiles     |-> Len(l.jsUrls) - l.successCount,
                 completedAt     |-> clock[j]])
    /\ microtasks' = <<ContTask("cont", j)>>
    /\ pc' = [pc EXCEPT ![j] = "afterCompleted"]
    /\ Tick(j)
    /\ Wrote(j, "manifest", << >>)
    /\ UNCHANGED <<jsFiles, loc, net, sanitized, discovered, called, classified, client>>

\* ManifestWriteOk that leaves failedFiles out of the final update
ManifestWriteOk_NoFailedFiles(j) ==
    /\ Completes(j, "manifestWrite")
    /\ LET l == loc[j] IN
          /\ disk' = [disk EXCEPT ![l.outputDir].manifest =
                             File(l.manifestContent)]
          /\ jobs' = updateExtractionJob(jobs, j,
                [status          |-> "completed",
                 successfulFiles |-> l.successCount,
                 totalSize       |-> l.totalSize,
                 completedAt     |-> clock[j]])
    /\ microtasks' = <<ContTask("cont", j)>>
    /\ pc' = [pc EXCEPT ![j] = "afterCompleted"]
    /\ Tick(j)
    /\ Wrote(j, "manifest", << >>)
    /\ UNCHANGED <<jsFiles, loc, net, sanitized, discovered, called, classified, client>>

\* lines 230-239: manifest.txt written; complete the job
ManifestWriteOk(j) ==
    /\ Completes(j, "manifestWrite")
    /\ LET l == loc[j] IN
          /\ disk' = [disk EXCEPT ![l.outputDir].manifest =
                             File(l.manifestContent)]
          /\ jobs' = updateExtractionJob(jobs, j,
                [status          |-> "completed",
                 successfulFiles |-> l.successCount,
                 failedFiles     |-> Len(l.jsUrls) - l.successCount,
                 totalSize       |-> l.totalSize,
                 completedAt     |-> clock[j]])
    /\ microtasks' = <<ContTask("cont", j)>>
    /\ pc' = [pc EXCEPT ![j] = "afterCompleted"]
    /\ Tick(j)
    /\ Wrote(j, "manifest", << >>)
    /\ UNCHANGED <<jsFiles, loc, net, sanitized, discovered, called, classified, client>>

\* lines 230, 243-262: writing manifest.txt failed
ManifestWriteFail(j) ==
    /\ Completes(j, "manifestWrite")
    /\ loc' = [loc EXCEPT ![j].error = WriteError]
    /\ CatchTop(j, WriteError, << >>, clock[j])
    /\ UNCHANGED <<jsFiles, disk, net, written, sanitized, discovered, called, classified, client>>

\* AfterCompleted that stamps completedAt a second time
AfterCompleted_Restamp(j) ==
    /\ Resumes(j, "afterCompleted")
    /\ jobs' = updateExtractionJob(jobs, j, [completedAt |-> clock[j]])
    /\ microtasks' = Append(Tail(microtasks),
          LogTask(jobs, j, clock[j], "success", "Done", 0))
    /\ pc' = [pc EXCEPT ![j] = "done"]
    /\ Tick(j)
    /\ UNCHANGED <<jsFiles, disk, loc, net, written, sanitized, discovered, called, classified, client>>

\* line 241: the final log entry, then return
AfterCompleted(j) ==
    /\ Resumes(j, "afterCompleted")
    /\ microtasks' = Append(Tail(microtasks),
          LogTask(jobs, j, clock[j], "success", "Done", 0))
    /\ pc' = [pc EXCEPT ![j] = "done"]
    /\ Tick(j)
    /\ UNCHANGED <<jobs, jsFiles, disk, loc, net, written, sanitized, discovered, called, classified, client>>

\* lines 259-263: return of the top-level catch
AfterFailed(j) ==
    /\ Resumes(j, "afterFailed")
    /\ microtasks' = Tail(microtasks)
    /\ pc' = [pc EXCEPT ![j] = "done"]
    /\ UNCHANGED <<jobs, jsFiles, disk, loc, net, clock, written, sanitized, discovered, called, classified, client>>

-----------------------------------------------------------------------------

Next ==
    \/ \E id \in JobIds, url \in RequestUrls : PostExtractionJob(id, url)
    \/ StartExtraction
    \/ RunLogCallback
    \/ \E j \in JobIds : AfterProcessing(j)
    \/ \E j \in JobIds : MkdirDone(j)
    \/ \E j \in JobIds, body \in PageBodies : PageFetchOk(j, body)
    \/ \E j \in JobIds, error \in FetchErrors : PageFetchFail(j, error)
    \/ \E j \in JobIds : PageWriteOk(j)
    \/ \E j \in JobIds : PageWriteFail(j)
    \/ \E j \in JobIds : AfterZero(j)
    \/ \E j \in JobIds : AfterTotal(j)
    \/ \E j \in JobIds, content \in Contents : JsFetchOk(j, content)
    \/ \E j \in JobIds, error \in FetchErrors : JsFetchFail(j, error)
    \/ \E j \in JobIds : JsWriteOk(j)
    \/ \E j \in JobIds : JsWriteFail(j)
    \/ \E j \in JobIds : AfterSuccessRow(j)
    \/ \E j \in JobIds : AfterFailedRow(j)
    \/ \E j \in JobIds : CombinedWriteOk(j)
    \/ \E j \in JobIds : CombinedWriteFail(j)
    \/ \E j \in JobIds : ManifestWriteOk(j)
    \/ \E j \in JobIds : ManifestWriteFail(j)
    \/ \E j \in JobIds : AfterCompleted(j)
    \/ \E j \in JobIds : AfterFailed(j)

Spec == Init /\ [][Next]_vars

\* the event loop keeps running and every pending request or file
\* operation of a job eventually settles, with success or with failure
JobStep(j) ==
    \/ AfterProcessing(j)
    \/ MkdirDone(j)
    \/ \E body \in PageBodies : PageFetchOk(j, body)
    \/ \E error \in FetchErrors : PageFetchFail(j, error)
    \/ PageWriteOk(j)
    \/ PageWriteFail(j)
    \/ AfterZero(j)
    \/ AfterTotal(j)
    \/ \E content \in Contents : JsFetchOk(j, content)
    \/ \E error \in FetchErrors : JsFetchFail(j, error)
    \/ JsWriteOk(j)
    \/ JsWriteFail(j)
    \/ AfterSuccessRow(j)
    \/ AfterFailedRow(j)
    \/ CombinedWriteOk(j)
    \/ CombinedWriteFail(j)
    \/ ManifestWriteOk(j)
    \/ ManifestWriteFail(j)
    \/ AfterCompleted(j)
    \/ AfterFailed(j)

Fairness ==
    /\ WF_vars(StartExtraction)
    /\ WF_vars(RunLogCallback)
    /\ \A j \in JobIds : WF_vars(JobStep(j))

\* one request: the run of a single job
PostOnly(id, url) ==
    /\ DOMAIN jobs = {}
    /\ PostExtractionJob(id, url)

NextSingle ==
    \/ \E id \in JobIds, url \in RequestUrls : PostOnly(id, url)
    \/ StartExtraction
    \/ RunLogCallback
    \/ \E j \in JobIds : JobStep(j)

LiveSpec == Init /\ [][NextSingle]_vars /\ Fairness

-----------------------------------------------------------------------------
(* One request for a page whose scripts share a basename                   *)

\* a page naming a.js, /b/a.js and a.js?v: three URLs, one basename
SameNamePages ==
    { << <<"a", ".", "j", "s">>, <<"/", "b", "/", "a", ".", "j", "s">>,
         <<"a", ".", "j", "s", "?", "v">> >> }

NamingNext ==
    \/ NextSingle
    \/ \E j \in JobIds, body \in SameNamePages : PageFetchOk(j, body)

NamingSpec == Init /\ [][NamingNext]_vars

-----------------------------------------------------------------------------
(* extractJavaScript and createExtractionJob called directly               *)

\* storage.createExtractionJob({url}) by a caller that starts no run, before
\* the run; the URLs that new URL(insertJob.url) rejects store nothing
CallCreateExtractionJob(id, url) ==
    /\ Idle
    /\ \A j \in JobIds : pc[j] = "idle"
    /\ IsFreshId(id)
    /\ PageUrlParses(url)
    /\ jobs' = createExtractionJob(jobs, id, [url |-> url], clock[id])
    /\ clock' = [clock EXCEPT ![id] = @ + 1]
    /\ UNCHANGED <<jsFiles, disk, microtasks, pc, loc, net, written, sanitized, discovered, called, classified, client>>

\* jsExtractor.extractJavaScript(jobId, url) with any job id and any URL,
\* up to its first await; one run at a time
CallExtractJavaScript(id, url) ==
    /\ Idle
    /\ \A j \in JobIds : pc[j] = "idle"
    /\ jobs' = updateExtractionJob(jobs, id, [status |-> "processing"])
    /\ loc' = [loc EXCEPT ![id].url = url]
    /\ pc' = [pc EXCEPT ![id] = "afterProcessing"]
    /\ microtasks' = <<ContTask("cont", id)>>
    /\ UNCHANGED <<jsFiles, disk, net, clock, written, sanitized, discovered, called, classified, client>>

DirectNext ==
    \/ \E id \in JobIds, url \in DirectUrls : CallCreateExtractionJob(id, url)
    \/ \E id \in JobIds, url \in DirectUrls : CallExtractJavaScript(id, url)
    \/ RunLogCallback
    \/ \E j \in JobIds : JobStep(j)
    \/ \E j \in JobIds : MkdirFail(j)

DirectSpec == Init /\ [][DirectNext]_vars

-----------------------------------------------------------------------------
(* MemStorage called on its own                                            *)

\* the calls of createJsFile stop when the store holds MaxRows rows
MaxRows == 1

SomeEntry == [timestamp |-> 5, type |-> "info", message |-> "x", n |-> 0]

\* payloads of createExtractionJob: a URL alone, a URL without a scheme, and
\* a payload that carries a value of its own for every field the store sets
InsertJobs ==
    { [url |-> u] :
         u \in {v \in DirectUrls : v.scheme # "ftp" /\ v.host = <<"a", ".", "t">>} }
    \cup { [url |-> u, id |-> "j2", status |-> "completed", totalFiles |-> 3,
            successfulFiles |-> 2, failedFiles |-> 1, totalSize |-> 9,
            logs |-> <<SomeEntry>>, completedAt |-> 7] : u \in RequestUrls }

\* payloads of updateExtractionJob
Updates ==
    { [status |-> "processing"],
      [status |-> "completed", successfulFiles |-> 1, completedAt |-> 9],
      [totalFiles |-> 1],
      [logs |-> <<SomeEntry>>],
      [id |-> "j2"] }

\* payloads of createJsFile
InsertFiles ==
    { [jobId |-> j, originalUrl |-> u, filename |-> <<"f">>, size |-> 1,
       status |-> "success", errorMessage |-> NoMsg] :
         j \in JobIds, u \in RequestUrls }

NoJob == [none |-> TRUE]

\* storage.createExtractionJob(insertJob): new URL(insertJob.url) throws
\* before anything is stored when the URL does not parse
StoreCreateJob(id, insertJob) ==
    /\ IsFreshId(id)
    /\ IF PageUrlParses(insertJob.url)
       THEN /\ jobs' = createExtractionJob(jobs, id, insertJob, clock[id])
            /\ called' = [method |-> "createExtractionJob", id |-> id,
                          payload |-> insertJob, raised |-> FALSE,
                          found |-> TRUE, job |-> jobs'[id]]
       ELSE /\ jobs' = jobs
            /\ called' = [method |-> "createExtractionJob", id |-> id,
                          payload |-> insertJob, raised |-> TRUE,
                          found |-> FALSE, job |-> NoJob]
    /\ UNCHANGED <<jsFiles, disk, microtasks, pc, loc, net, clock, written,
                   sanitized, discovered, classified, client>>

\* storage.updateExtractionJob(id, updates): the job after the merge, or
\* undefined
StoreUpdateJob(id, updates) ==
    /\ jobs' = updateExtractionJob(jobs, id, updates)
    /\ called' = [method |-> "updateExtractionJob", id |-> id,
                  payload |-> updates, raised |-> FALSE,
                  found |-> id \in DOMAIN jobs,
                  job |-> IF id \in DOMAIN jobs THEN jobs'[id] ELSE NoJob]
    /\ UNCHANGED <<jsFiles, disk, microtasks, pc, loc, net, clock, written,
                   sanitized, discovered, classified, client>>

\* storage.createJsFile(insertFile)
StoreCreateJsFile(insertFile) ==
    /\ Len(jsFiles["j1"]) + Len(jsFiles["j2"]) < MaxRows
    /\ jsFiles' = createJsFile(jsFiles, insertFile)
    /\ called' = [method |-> "createJsFile", id |-> insertFile.jobId,
                  payload |-> insertFile, raised |-> FALSE, found |-> TRUE,
                  job |-> NoJob]
    /\ UNCHANGED <<jobs, disk, microtasks, pc, loc, net, clock, written,
                   sanitized, discovered, classified, client>>

StoreNext ==
    \/ \E id \in JobIds, insertJob \in InsertJobs : StoreCreateJob(id, insertJob)
    \/ \E id \in JobIds, updates \in Updates : StoreUpdateJob(id, updates)
    \/ \E insertFile \in InsertFiles : StoreCreateJsFile(insertFile)

StoreSpec == Init /\ [][StoreNext]_vars

-----------------------------------------------------------------------------
(* JSExtractor.safeFilename called on its own                              *)

\* the names it is called with have at most MaxNameLen characters
MaxNameLen == 3

NameChars == {"a", " ", "\t", "/", ":", "%", "2", "5"}

\* sanitize("a b/c:d") of the specification's examples
ExampleName == <<"a", " ", "b", "/", "c", ":", "d">>

Names == UNION {[1..n -> NameChars] : n \in 0..MaxNameLen} \cup {ExampleName}

\* safeFilename(name): returns, or throws the URIError of decodeURIComponent
CallSafeFilename ==
    /\ sanitized.outcome = "idle"
    /\ sanitized' =
          IF DecodeOk(sanitized.name)
          THEN [sanitized EXCEPT !.outcome = "returned",
                                 !.result = safeFilename(sanitized.name)]
          ELSE [sanitized EXCEPT !.outcome = "thrown"]
    /\ UNCHANGED <<jobs, jsFiles, disk, microtasks, pc, loc, net, clock,
                   written, discovered, called, classified, client>>

SanitizerInit ==
    /\ InitServer
    /\ sanitized \in {[NoCall EXCEPT !.name = name] : name \in Names}
    /\ discovered = NoDiscovery
    /\ classified = NoClassification

SanitizerNext == CallSafeFilename

SanitizerSpec == SanitizerInit /\ [][SanitizerNext]_vars

-----------------------------------------------------------------------------
(* JSExtractor.findJsUrls called on its own                                *)

\* the markup has at most MaxScripts script elements with a src attribute
MaxScripts == 3

\* src attribute values that name a script: a.js three times (plain, with
\* surrounding whitespace, with ./), an upper-case extension, a
\* network-path reference, a query after the path
ScriptRefs ==
    { <<"a", ".", "j", "s">>,
      <<" ", "a", ".", "j", "s">>,
      <<".", "/", "a", ".", "j", "s">>,
      <<"/", "b", "/", "A", ".", "J", "S">>,
      <<"/", "/", "C", ".", "t", "/", "d", ".", "j", "s">>,
      <<"a", ".", "j", "s", "?", "v">> }

\* src attribute values that name no script: another extension, an empty
\* and a blank value, an unresolvable reference, .js in the query only
OtherRefs ==
    { <<"s", ".", "c", "s", "s">>,
      << >>,
      <<" ", " ">>,
      <<"/", "/", "[">>,
      <<"s", ".", "c", "s", "s", "?", ".", "j", "s">> }

SrcValues == ScriptRefs \cup OtherRefs

\* the markup: the src attribute values of its script elements, in order
Markups == UNION {[1..n -> SrcValues] : n \in 0..MaxScripts}

\* the base URLs: the page of the server root and a page in a directory
BaseUrls ==
    RequestUrls \cup
    { [scheme |-> "https", host |-> <<"a", ".", "t">>, path |-> <<"/", "p", "/", "i", ".", "h", "t", "m", "l">>,
       query |-> << >>] }

\* findJsUrls(html, baseUrl): it returns, new URL() is called inside a try
CallFindJsUrls ==
    /\ discovered.outcome = "idle"
    /\ discovered' =
          [discovered EXCEPT
              !.outcome = "returned",
              !.urls = findJsUrls(discovered.html, discovered.baseUrl)]
    /\ UNCHANGED <<jobs, jsFiles, disk, microtasks, pc, loc, net, clock,
                   written, sanitized, called, classified, client>>

DiscovererInit ==
    /\ InitServer
    /\ sanitized = NoCall
    /\ classified = NoClassification
    /\ discovered \in {[NoDiscovery EXCEPT !.html = html, !.baseUrl = baseUrl] :
                           html \in Markups, baseUrl \in BaseUrls}

DiscovererNext == CallFindJsUrls

DiscovererSpec == DiscovererInit /\ [][DiscovererNext]_vars

-----------------------------------------------------------------------------
(* The error classification of the two catch blocks on its own             *)

\* values a catch block may be entered with: with or without a response
\* property, with or without a response status and reason, with or without
\* a message, an Error instance or not
FailureValues ==
    { [hasResponse |-> r, status |-> st, statusText |-> tx, message |-> m,
       isError |-> e] :
         r \in BOOLEAN, st \in {0, 404, 500}, tx \in {NoText, "Not Found"},
         m \in {NoText, "timeout of 20000ms exceeded", "URI malformed"},
         e \in BOOLEAN }

\* a value without a response has no response status and no reason
IsFailureValue(v) == ~v.hasResponse => (v.status = 0 /\ v.statusText = NoText)

\* lines 189-202
ClassifyResource ==
    /\ classified.catch = "none"
    /\ classified' =
          [classified EXCEPT
              !.catch = "resource",
              !.msg = [status |-> ResourceErrorMsg(classified.error).status,
                       text |-> ResourceErrorMsg(classified.error).text,
                       whenFetching |-> FALSE]]
    /\ UNCHANGED <<jobs, jsFiles, disk, microtasks, pc, loc, net, clock,
                   written, sanitized, discovered, called, client>>

\* lines 244-255
ClassifyTop ==
    /\ classified.catch = "none"
    /\ classified' = [classified EXCEPT !.catch = "top",
                                        !.msg = JobErrorMsg(classified.error)]
    /\ UNCHANGED <<jobs, jsFiles, disk, microtasks, pc, loc, net, clock,
                   written, sanitized, discovered, called, client>>

ClassifierInit ==
    /\ InitServer
    /\ sanitized = NoCall
    /\ discovered = NoDiscovery
    /\ classified \in {[NoClassification EXCEPT !.error = v] :
                          v \in {w \in FailureValues : IsFailureValue(w)}}

ClassifierNext == ClassifyResource \/ ClassifyTop

ClassifierSpec == ClassifierInit /\ [][ClassifierNext]_vars

-----------------------------------------------------------------------------
(* The HTTP client: rejected POST requests and GET /api/extraction-jobs/:id *)

\* bodies of POST /api/extraction-jobs: whether
\* insertExtractionJobSchema.parse accepts the body, and the url it carries:
\* https://a.t/ or a.t/ without a scheme
RequestBodies ==
    [valid : BOOLEAN,
     url : RequestUrls \cup
           { [scheme |-> NoText, host |-> <<"a", ".", "t">>,
              path |-> <<"/">>, query |-> << >>] }]

\* the reply of the catch block of the POST handler
ErrorReply(body) ==
    [code |-> 400,
     message |-> IF body.valid THEN "Failed to create extraction job"
                 ELSE "Invalid request data",
     url |-> body.url,
     valid |-> body.valid]

\* PostRejected that has stored the job when new URL(insertJob.url) throws
PostRejected_StoresJob(id, body) ==
    /\ Idle
    /\ IsFreshId(id)
    /\ ~body.valid \/ ~PageUrlParses(body.url)
    /\ jobs' = IF body.valid
               THEN createExtractionJob(jobs, id, [url |-> body.url],
                                        clock[id])
               ELSE jobs
    /\ client' = [client EXCEPT !.rejected = ErrorReply(body)]
    /\ UNCHANGED <<jsFiles, disk, microtasks, pc, loc, net, clock, written,
                   sanitized, discovered, called, classified>>

\* the POST handler with a body that makes its try block throw: parse
\* raises a ZodError, or createExtractionJob raises at
\* new URL(insertJob.url) before this.jobs.set; the catch block answers 400
PostRejected(id, body) ==
    /\ Idle
    /\ IsFreshId(id)
    /\ ~body.valid \/ ~PageUrlParses(body.url)
    /\ jobs' = jobs
    /\ client' = [client EXCEPT !.rejected = ErrorReply(body)]
    /\ UNCHANGED <<jsFiles, disk, microtasks, pc, loc, net, clock, written,
                   sanitized, discovered, called, classified>>

RouteNext ==
    \/ NextSingle
    \/ \E id \in JobIds, body \in RequestBodies : PostRejected(id, body)

RouteSpec == Init /\ [][RouteNext]_vars

\* the status a GET of job j answers with: 404 when the store has no such job
GetStatus(j) == IF j \in DOMAIN jobs THEN jobs[j].status ELSE "notFound"

\* the query of the page: enabled once the POST reply has set currentJobId,
\* fetched once and refetched while the last result has status processing
ClientGet(j) ==
    /\ Idle
    /\ client.replied[j] # "none"
    /\ client.observed[j] \in {"none", "processing"}
    /\ client' = [client EXCEPT !.observed[j] = GetStatus(j)]
    /\ UNCHANGED <<jobs, jsFiles, disk, microtasks, pc, loc, net, clock,
                   written, sanitized, discovered, called, classified>>

PollNext ==
    \/ NextSingle
    \/ \E j \in JobIds : ClientGet(j)

\* the server makes progress and the query's timer fires
PollSpec ==
    /\ Init
    /\ [][PollNext]_vars
    /\ Fairness
    /\ \A j \in JobIds : WF_vars(ClientGet(j))

-----------------------------------------------------------------------------
(* Properties                                                              *)

Terminal == {"completed", "failed"}

Exists(j) == j \in DOMAIN jobs

\* the requests of job j for script resources (the first request is the page)
ResourceRequests(j) == SubSeq(net[j], 2, Len(net[j]))

\* extractJavaScript of job j is between the request of a resource and the
\* end of that loop iteration
InIteration(j) ==
    pc[j] \in {"jsFetch", "jsWrite", "afterSuccessRow", "afterFailedRow"}

\* the download loop of job j has been left
LoopDone(j) ==
    \/ pc[j] \in {"combinedWrite", "manifestWrite", "afterCompleted"}
    \/ pc[j] \in {"afterFailed", "done"} /\ loc[j].manifestContent # << >>

DataLines(manifest) == SelectSeq(manifest, LAMBDA line : line.kind = "data")

\* the page request of job j was rejected
PageFetchFailed(j) ==
    /\ Len(net[j]) >= 1
    /\ loc[j].response = NoResponse
    /\ loc[j].error # NoError

\* discovery ran for job j and found nothing
ZeroDiscovered(j) ==
    /\ pc[j] \in {"afterZero", "done"}
    /\ loc[j].response # NoResponse
    /\ loc[j].error = NoError
    /\ loc[j].jsUrls = << >>

StatusEdges ==
    { <<"pending", "processing">>,
      <<"processing", "completed">>,
      <<"processing", "failed">> }

\* C1: a job is created pending, and in every step its status stays the
\* same or moves pending -> processing, processing -> completed or
\* processing -> failed; a completed or failed job keeps its status.
C1_StatusMovesForward ==
    [][\A j \in JobIds :
          /\ (~Exists(j) /\ Exists(j)') => jobs'[j].status = "pending"
          /\ Exists(j) =>
                /\ Exists(j)'
                /\ \/ jobs'[j].status = jobs[j].status
                   \/ <<jobs[j].status, jobs'[j].status>> \in StatusEdges]_vars

C1_Witness ==
    \E j, k \in DOMAIN jobs :
        /\ jobs[j].status = "completed" /\ pc[j] = "done"
        /\ jobs[k].status = "failed" /\ pc[k] = "done"

\* C2: under fairness every job whose extraction has been started
\* eventually has status completed or failed.
C2_StartedJobTerminates ==
    \A j \in JobIds :
        (pc[j] # "idle") ~> (Exists(j) /\ jobs[j].status \in Terminal)

C2_Witness ==
    \E j \in DOMAIN jobs :
        /\ pc[j] = "done"
        /\ jobs[j].status = "completed"
        /\ jobs[j].successfulFiles = 1
        /\ jobs[j].failedFiles = 1

\* C3 as stated: in every terminal state successfulFiles + failedFiles =
\* totalFiles and totalFiles is the number of discovered URLs.
C3_CountersAddUpWhenTerminal ==
    \A j \in DOMAIN jobs :
        jobs[j].status \in Terminal =>
            /\ jobs[j].successfulFiles + jobs[j].failedFiles = jobs[j].totalFiles
            /\ jobs[j].totalFiles = Len(loc[j].jsUrls)

\* C3 amended: the counters add up to the number of discovered URLs for a
\* completed job; a failed job has totalFiles equal to the number of
\* discovered URLs (0 when discovery never ran) and both successfulFiles and
\* failedFiles still 0.
C3_CountersAddUpWhenCompleted ==
    \A j \in DOMAIN jobs :
        /\ jobs[j].status = "completed" =>
              /\ jobs[j].successfulFiles + jobs[j].failedFiles = jobs[j].totalFiles
              /\ jobs[j].totalFiles = Len(loc[j].jsUrls)
        /\ jobs[j].status = "failed" =>
              /\ jobs[j].totalFiles = Len(loc[j].jsUrls)
              /\ jobs[j].successfulFiles = 0
              /\ jobs[j].failedFiles = 0

C3_Witness ==
    \E j, k \in DOMAIN jobs :
        /\ jobs[j].status = "completed"
        /\ jobs[j].totalFiles = 2
        /\ jobs[j].failedFiles = 1
        /\ jobs[k].status = "failed"
        /\ jobs[k].totalFiles = 2

\* C4: completedAt of a stored job is set exactly when its status is
\* completed or failed.
C4_CompletedAtIffTerminal ==
    \A j \in DOMAIN jobs :
        (jobs[j].completedAt # NoDate) <=> (jobs[j].status \in Terminal)

C4_Witness ==
    \E j, k \in DOMAIN jobs :
        /\ jobs[j].status = "failed" /\ jobs[j].completedAt # NoDate
        /\ jobs[k].status = "processing" /\ jobs[k].completedAt = NoDate
        /\ jobs[k].totalFiles > 0

Counters == {"totalFiles", "successfulFiles", "failedFiles", "totalSize"}

\* C5: the four counters are 0 at creation and never decrease, and once the
\* status is completed or failed the counters and completedAt keep their
\* values.
C5_CountersMonotoneThenFrozen ==
    [][\A j \in JobIds :
          /\ (~Exists(j) /\ Exists(j)') =>
                \A c \in Counters : jobs'[j][c] = 0
          /\ Exists(j) =>
                /\ \A c \in Counters : jobs'[j][c] >= jobs[j][c]
                /\ jobs[j].status \in Terminal =>
                      /\ \A c \in Counters : jobs'[j][c] = jobs[j][c]
                      /\ jobs'[j].completedAt = jobs[j].completedAt]_vars

C5_Witness ==
    \E j \in DOMAIN jobs :
        /\ jobs[j].status = "completed"
        /\ pc[j] = "done"
        /\ microtasks = << >>
        /\ jobs[j].totalSize > 0
        /\ jobs[j].successfulFiles = 2

\* C6: the resource requests of a job are the discovered URLs in order,
\* no URL twice, and all of them once the loop is left; while a
\* resource is handled the status stays processing, and an iteration that
\* ends with a failed outcome goes on to request the next URL.
C6_EveryUrlFetchedOnce ==
    /\ [](\A j \in JobIds :
            /\ Len(ResourceRequests(j)) <= Len(loc[j].jsUrls)
            /\ ResourceRequests(j) =
                   SubSeq(loc[j].jsUrls, 1, Len(ResourceRequests(j)))
            /\ \A a, b \in DOMAIN ResourceRequests(j) :
                  a # b => ResourceRequests(j)[a] # ResourceRequests(j)[b]
            /\ LoopDone(j) => ResourceRequests(j) = loc[j].jsUrls)
    /\ [][\A j \in JobIds :
            /\ InIteration(j) => jobs'[j].status = "processing"
            /\ (pc[j] = "afterFailedRow" /\ pc'[j] # pc[j]) =>
                  IF loc[j].i + 1 < Len(loc[j].jsUrls)
                  THEN /\ pc'[j] = "jsFetch"
                       /\ net'[j] = Append(net[j], loc[j].jsUrls[loc[j].i + 2])
                  ELSE /\ pc'[j] = "combinedWrite"
                       /\ net'[j] = net[j]]_vars

C6_Witness ==
    \E j \in DOMAIN jobs :
        /\ Len(loc[j].jsUrls) = 2
        /\ jobs[j].status = "completed"
        /\ jsFiles[j][1].status = "failed"
        /\ jsFiles[j][2].status = "success"
        /\ ResourceRequests(j) = loc[j].jsUrls

\* C7: a completed job with N discovered URLs has exactly N outcome rows,
\* the k-th for the k-th URL, and the manifest it wrote has N data lines.
C7_OneRowPerUrl ==
    \A j \in DOMAIN jobs :
        jobs[j].status = "completed" =>
            /\ Len(getJsFilesByJobId(jsFiles, j)) = Len(loc[j].jsUrls)
            /\ \A k \in 1..Len(loc[j].jsUrls) :
                  /\ jsFiles[j][k].originalUrl = loc[j].jsUrls[k]
                  /\ jsFiles[j][k].jobId = j
            /\ Len(DataLines(loc[j].manifestContent)) = Len(loc[j].jsUrls)
            /\ Len(loc[j].jsUrls) > 0 =>
                  Len(loc[j].manifestContent) = Len(loc[j].jsUrls) + 3

C7_Witness ==
    \E j \in DOMAIN jobs :
        /\ jobs[j].status = "completed"
        /\ Len(loc[j].jsUrls) = 2
        /\ Len(jsFiles[j]) = 2
        /\ jsFiles[j][1].status = "success"
        /\ jsFiles[j][2].status = "failed"

\* C8: the k-th section of the combined buffer and the k-th data line of
\* the manifest carry index k and the k-th discovered URL, whatever the
\* outcomes were; both buffers hold one entry per finished iteration.
C8_BuffersInDiscoveryOrder ==
    \A j \in JobIds :
        LET sections == loc[j].combinedContent
            lines    == DataLines(loc[j].manifestContent)
        IN  /\ Len(sections) = Len(lines)
            /\ Len(sections) <= Len(loc[j].jsUrls)
            /\ pc[j] # "idle" /\ loc[j].jsUrls # << >> /\ pc[j] # "afterTotal"
                  => Len(sections) = loc[j].i
            /\ LoopDone(j) => Len(sections) = Len(loc[j].jsUrls)
            /\ \A k \in 1..Len(sections) :
                  /\ sections[k].fileIndex = k
                  /\ sections[k].url = loc[j].jsUrls[k]
                  /\ lines[k].n = k
                  /\ lines[k].url = loc[j].jsUrls[k]

C8_Witness ==
    \E j \in JobIds :
        /\ LoopDone(j)
        /\ Len(loc[j].combinedContent) = 2
        /\ loc[j].combinedContent[1].httpStatus.literal = "ERROR"
        /\ loc[j].combinedContent[2].httpStatus.code = 200
        /\ DataLines(loc[j].manifestContent)[2].tag = "OK"

\* C9: when the page request is rejected the job is failed with
\* completedAt set, the page request is its only request, it has no
\* outcome rows and totalFiles is 0.
C9_PageFetchFailureFailsJob ==
    \A j \in DOMAIN jobs :
        PageFetchFailed(j) =>
            /\ jobs[j].status = "failed"
            /\ jobs[j].completedAt # NoDate
            /\ net[j] = <<loc[j].url>>
            /\ jsFiles[j] = << >>
            /\ jobs[j].totalFiles = 0

C9_Witness ==
    \E j \in DOMAIN jobs :
        /\ PageFetchFailed(j)
        /\ loc[j].error = HttpError404
        /\ pc[j] = "done"
        /\ microtasks = << >>

\* C10: when discovery finds no URL the job is completed with the three
\* file counters 0, the page request is its only request and it has no
\* outcome rows.
C10_ZeroResourcesCompletes ==
    \A j \in DOMAIN jobs :
        ZeroDiscovered(j) =>
            /\ jobs[j].status = "completed"
            /\ jobs[j].totalFiles = 0
            /\ jobs[j].successfulFiles = 0
            /\ jobs[j].failedFiles = 0
            /\ net[j] = <<loc[j].url>>
            /\ jsFiles[j] = << >>

C10_Witness ==
    \E j \in DOMAIN jobs :
        /\ ZeroDiscovered(j)
        /\ pc[j] = "done"
        /\ microtasks = << >>
        /\ disk[loc[j].outputDir].page = File(<< >>)

\* job j has written a file of this kind
WroteKind(j, kind) == \E f \in written[j] : f.kind = kind

\* C11 as stated: whenever a job is completed it has written both the
\* combined file and the manifest into its directory, also when it
\* discovered nothing.
C11_CompletedHasArtifacts ==
    \A j \in DOMAIN jobs :
        jobs[j].status = "completed" =>
            /\ WroteKind(j, "combined")
            /\ WroteKind(j, "manifest")

\* C11 amended: a completed job that discovered at least one URL has
\* written the combined file and the manifest, and the step that completes
\* it leaves its own manifest buffer in manifest.txt; a completed job that
\* discovered nothing has written page.html and nothing else.
C11_CompletedHasArtifactsUnlessZero ==
    /\ [](\A j \in DOMAIN jobs :
            jobs[j].status = "completed" =>
                IF Len(loc[j].jsUrls) > 0
                THEN /\ WroteKind(j, "combined")
                     /\ WroteKind(j, "manifest")
                ELSE written[j] = {[kind |-> "page", name |-> << >>]})
    /\ [][\A j \in DOMAIN jobs :
            (jobs[j].status # "completed" /\ jobs'[j].status = "completed"
                /\ Len(loc[j].jsUrls) > 0) =>
                disk'[loc[j].outputDir].manifest = File(loc[j].manifestContent)]_vars

C11_Witness ==
    \E j, k \in DOMAIN jobs :
        /\ jobs[j].status = "completed"
        /\ Len(loc[j].jsUrls) = 2
        /\ WroteKind(j, "manifest")
        /\ jobs[k].status = "completed"
        /\ Len(loc[k].jsUrls) = 0
        /\ loc[k].outputDir = loc[j].outputDir
        /\ disk[loc[k].outputDir].manifest = File(loc[j].manifestContent)

\* s is a prefix of t
IsPrefix(s, t) == Len(s) <= Len(t) /\ SubSeq(t, 1, Len(s)) = s

\* C12: the persisted log of a job is append-only: in every step the
\* previous value of logs is a prefix of the new value.
C12_LogsAppendOnly ==
    [][\A j \in DOMAIN jobs : IsPrefix(jobs[j].logs, jobs'[j].logs)]_vars

\* the per-resource progress entries of a log
ProgressEntries(logs) == SelectSeq(logs, LAMBDA e : e.type = "progress")

\* C13: the entries of a persisted log are in the order in which addLog
\* was called (every call takes a later timestamp), and the progress
\* entries carry strictly increasing indices, each the index of a
\* discovered URL, so they are ordered as the manifest lines with these
\* indices are.
C13_LogsInEmissionOrder ==
    \A j \in DOMAIN jobs :
        LET logs     == jobs[j].logs
            progress == ProgressEntries(logs)
            lines    == DataLines(loc[j].manifestContent)
        IN  /\ \A a, b \in DOMAIN logs :
                  a < b => logs[a].timestamp < logs[b].timestamp
            /\ \A a, b \in DOMAIN progress :
                  a < b => progress[a].n < progress[b].n
            /\ \A a \in DOMAIN progress : progress[a].n \in 1..Len(loc[j].jsUrls)
            /\ \A k \in DOMAIN lines :
                  /\ lines[k].n = k
                  /\ LoopDone(j) =>
                        \E a \in DOMAIN progress : progress[a].n = lines[k].n

C13_Witness ==
    \E j \in DOMAIN jobs :
        /\ pc[j] = "done"
        /\ microtasks = << >>
        /\ jobs[j].status = "completed"
        /\ Len(ProgressEntries(jobs[j].logs)) = 2
        /\ Len(DataLines(loc[j].manifestContent)) = 2
        /\ DataLines(loc[j].manifestContent)[1].tag = "ERROR"

\* C14: resources are handled one at a time.  The rows of a job are as
\* many as its resource requests, or one fewer while the last request is
\* being handled; while resource i is handled exactly i requests have been
\* issued and i-1 or i rows recorded, with i-1 rows as long as the request
\* is in flight; and a resource request is only issued when every earlier
\* request has its row.
C14_OneResourceAtATime ==
    /\ [](\A j \in JobIds :
            LET requests == Len(ResourceRequests(j))
                rows     == Len(getJsFilesByJobId(jsFiles, j))
            IN  /\ requests - rows \in {0, 1}
                /\ InIteration(j) =>
                      /\ requests = loc[j].i + 1
                      /\ rows \in {loc[j].i, loc[j].i + 1}
                /\ pc[j] \in {"jsFetch", "jsWrite"} => rows = requests - 1
                /\ ~InIteration(j) => rows = requests)
    /\ [][\A j \in JobIds :
            (Len(net[j]) >= 1 /\ Len(net'[j]) > Len(net[j])) =>
                /\ Len(net'[j]) = Len(net[j]) + 1
                /\ Len(getJsFilesByJobId(jsFiles, j)) = Len(ResourceRequests(j))
                /\ jsFiles'[j] = jsFiles[j]]_vars

C14_Witness ==
    \E j \in JobIds :
        /\ pc[j] = "jsFetch"
        /\ loc[j].i = 1
        /\ Len(ResourceRequests(j)) = 2
        /\ Len(jsFiles[j]) = 1
        /\ jsFiles[j][1].status = "success"

\* C15: safeFilename never throws, and on a name with a malformed percent
\* escape it returns the name unchanged.
C15_SanitizerTotal ==
    /\ sanitized.outcome # "thrown"
    /\ (sanitized.outcome = "returned" /\ ~DecodeOk(sanitized.name)) =>
          sanitized.result = sanitized.name

\* the positions of s that survive /\s+/g: every character that is not
\* whitespace and the first character of every run of whitespace
RunStarts(s) ==
    {k \in DOMAIN s : ~IsSpace(s[k]) \/ k = 1 \/ ~IsSpace(s[k - 1])}

\* C16: when safeFilename returns, the result is not empty, holds no
\* forbidden character and no whitespace, and is the decoded name with each
\* forbidden character and each run of whitespace replaced by one
\* underscore; a name that decodes to the empty string gives "file".
C16_SanitizedNameIsClean ==
    sanitized.outcome = "returned" =>
        LET decoded == DecodeURIComponent(sanitized.name)
            result  == sanitized.result
            starts  == RunStarts(decoded)
        IN  /\ result # << >>
            /\ \A i \in DOMAIN result :
                  result[i] \notin ForbiddenChars /\ ~IsSpace(result[i])
            /\ decoded = << >> => result = <<"f", "i", "l", "e">>
            /\ decoded # << >> =>
                  /\ Len(result) = Cardinality(starts)
                  /\ \A k \in starts :
                        LET i == Cardinality({m \in starts : m <= k})
                        IN  result[i] =
                               IF IsSpace(decoded[k]) \/ decoded[k] \in ForbiddenChars
                               THEN "_" ELSE decoded[k]
            /\ sanitized.name = ExampleName =>
                  result = <<"a", "_", "b", "_", "c", "_", "d">>
            /\ sanitized.name = <<"%", "2", "2">> => result = <<"_">>
            /\ sanitized.name = <<"%", "2", "5">> => result = <<"%">>
            /\ sanitized.name = <<" ", "\t", ":">> => result = <<"_", "_">>

C16_Witness ==
    /\ sanitized.outcome = "returned"
    /\ sanitized.name = <<" ", "\t", ":">>
    /\ sanitized.result = <<"_", "_">>

\* C17: a row is failed only when the request of its resource was
\* rejected: when a row is recorded for a resource whose response has
\* arrived, it is a success row with the size of the response, and the
\* manifest line of a row is tagged OK exactly when the row is a success.
C17_FailedOnlyWhenRetrievalFailed ==
    /\ [][\A j \in JobIds :
            Len(jsFiles'[j]) > Len(jsFiles[j]) =>
                LET row       == jsFiles'[j][Len(jsFiles'[j])]
                    retrieved == loc'[j].jsResponse # NoResponse
                IN  /\ row.status = "failed" => ~retrieved
                    /\ retrieved =>
                          /\ row.status = "success"
                          /\ row.size = Len(loc'[j].jsResponse.data)]_vars
    /\ [](\A j \in JobIds :
            LET lines == DataLines(loc[j].manifestContent)
            IN  \A k \in DOMAIN lines :
                    /\ k <= Len(jsFiles[j])
                    /\ lines[k].tag = "OK" <=> jsFiles[j][k].status = "success")

ExpectedUrl(src) ==
    CASE Trim(src) \in {<<"a", ".", "j", "s">>, <<".", "/", "a", ".", "j", "s">>}
             -> [scheme |-> "https", host |-> <<"a", ".", "t">>, path |-> <<"/", "p", "/", "a", ".", "j", "s">>,
         query |-> << >>]
      [] src = <<"/", "b", "/", "A", ".", "J", "S">>
             -> [scheme |-> "https", host |-> <<"a", ".", "t">>, path |-> <<"/", "b", "/", "A", ".", "J", "S">>,
         query |-> << >>]
      [] src = <<"/", "/", "C", ".", "t", "/", "d", ".", "j", "s">>
             -> [scheme |-> "https", host |-> <<"c", ".", "t">>, path |-> <<"/", "d", ".", "j", "s">>,
         query |-> << >>]
      [] src = <<"a", ".", "j", "s", "?", "v">>
             -> [scheme |-> "https", host |-> <<"a", ".", "t">>, path |-> <<"/", "p", "/", "a", ".", "j", "s">>,
         query |-> <<"?", "v">>]

\* the positions of the markup whose reference names a script
ScriptPositions(html) == {k \in DOMAIN html : html[k] \in ScriptRefs}

\* C19: the result of findJsUrls holds no URL twice, holds the resolved URL
\* of every script reference of the markup and nothing else, and lists the
\* URLs in the order of their first occurrence in the markup.
C19_ResultIsDeduplicatedInOrder ==
    discovered.outcome = "returned" =>
        LET html     == discovered.html
            urls     == discovered.urls
            Url(k)   == ResolveUrl(Trim(html[k]), discovered.baseUrl)
            First(u) == Min({k \in ScriptPositions(html) : Url(k) = u})
        IN  /\ \A a, b \in DOMAIN urls : a # b => urls[a] # urls[b]
            /\ SeqToSet(urls) = {Url(k) : k \in ScriptPositions(html)}
            /\ \A a, b \in DOMAIN urls : a < b => First(urls[a]) < First(urls[b])
            /\ discovered.baseUrl.path = <<"/", "p", "/", "i", ".", "h", "t", "m", "l">> =>
                  SeqToSet(urls) = {ExpectedUrl(html[k]) : k \in ScriptPositions(html)}
            /\ html = <<<<"a", ".", "j", "s">>, <<"a", ".", "j", "s">>>> => Len(urls) = 1

C19_Witness ==
    /\ discovered.outcome = "returned"
    /\ discovered.html = <<<<"a", ".", "j", "s">>, <<"/", "b", "/", "A", ".", "J", "S">>, <<" ", "a", ".", "j", "s">>>>
    /\ Len(discovered.urls) = 2
    /\ discovered.urls[1].path = <<"/", "a", ".", "j", "s">>
    /\ discovered.urls[2].path = <<"/", "b", "/", "A", ".", "J", "S">>

\* C20: a reference is kept (its resolved URL is in the result) exactly
\* when it is one that names a script: not empty after trimming, resolvable
\* and with a path that ends in .js in any case.  Every other reference is
\* dropped for one of these three reasons, and the references around it
\* are kept all the same.
C20_KeepsOnlyScriptReferences ==
    discovered.outcome = "returned" =>
        LET html        == discovered.html
            baseUrl     == discovered.baseUrl
            urls        == discovered.urls
            Src(k)      == Trim(html[k])
            Resolves(k) == Src(k) # << >> /\ UrlParses(Src(k))
            Url(k)      == ResolveUrl(Src(k), baseUrl)
            EndsInJs(k) == EndsWith(LowerCase(Url(k).path), <<".", "j", "s">>)
            Kept(k)     == Resolves(k) /\ Url(k) \in SeqToSet(urls)
        IN  /\ \A k \in DOMAIN html :
                  /\ Kept(k) <=> html[k] \in ScriptRefs
                  /\ Kept(k) <=> (Resolves(k) /\ EndsInJs(k))
            /\ \A a \in DOMAIN urls :
                  \E k \in DOMAIN html : Kept(k) /\ urls[a] = Url(k)
            /\ Len(urls) <= Cardinality(ScriptPositions(html))

C20_Witness ==
    /\ discovered.outcome = "returned"
    /\ discovered.html = <<<<"s", ".", "c", "s", "s", "?", ".", "j", "s">>, <<"/", "/", "[">>, <<"/", "b", "/", "A", ".", "J", "S">>>>
    /\ Len(discovered.urls) = 1
    /\ discovered.urls[1].path = <<"/", "b", "/", "A", ".", "J", "S">>

-----------------------------------------------------------------------------
\* C21: the URL a run parses is the requested URL with https:// in front of
\* it when the requested URL has no scheme (also when its host begins with
\* http), and the requested URL itself when it has a scheme
C21_SchemeLessUrlIsPrefixed ==
    [][\A j \in JobIds :
          pc[j] = "afterProcessing" /\ pc'[j] # "afterProcessing" =>
             loc'[j].url = IF loc[j].url.scheme = NoText
                           THEN [loc[j].url EXCEPT !.scheme = "https"]
                           ELSE loc[j].url]_vars

\* a fault was raised in the run of job j outside the download loop: fs.mkdir
\* rejected, new URL(url) threw, the page request was rejected, or the write
\* of page.html, of all_js_combined.txt or of manifest.txt was rejected
FaultOutsideLoop(j) ==
    \/ loc[j].dirError.isError
    \/ pc[j] \notin {"idle", "afterProcessing"} /\ ~PageUrlParses(loc[j].url)
    \/ PageFetchFailed(j)
    \/ /\ pc[j] \in {"afterFailed", "done"}
       /\ loc[j].response # NoResponse
       /\ ~WroteKind(j, "page")
    \/ /\ pc[j] \in {"afterFailed", "done"}
       /\ LoopDone(j)
       /\ ~(WroteKind(j, "combined") /\ WroteKind(j, "manifest"))

\* C22: a run in which a fault was raised outside the download loop ends
\* (run returned, every log write applied) with the job failed, completedAt
\* set and an error entry in its log; the job is not left in processing and
\* the fault is not ignored.
C22_OuterFaultFailsJob ==
    \A j \in DOMAIN jobs :
        FaultOutsideLoop(j) /\ pc[j] = "done" /\ Idle =>
            /\ jobs[j].status = "failed"
            /\ jobs[j].completedAt # NoDate
            /\ \E k \in 1..Len(jobs[j].logs) :
                  /\ jobs[j].logs[k].type = "error"
                  /\ jobs[j].logs[k].message = "Extraction failed"

\* the job createExtractionJob stored and returned under id: pending, every
\* counter 0, no logs, no completedAt, an id no stored job had; the other
\* jobs and the outcome rows are as before the call
StoredFreshJob(id) ==
    /\ id \notin DOMAIN jobs
    /\ \A k \in DOMAIN jobs : jobs[k].id # id
    /\ DOMAIN jobs' = DOMAIN jobs \cup {id}
    /\ called'.job = jobs'[id]
    /\ jobs'[id].id = id
    /\ jobs'[id].status = "pending"
    /\ jobs'[id].totalFiles = 0
    /\ jobs'[id].successfulFiles = 0
    /\ jobs'[id].failedFiles = 0
    /\ jobs'[id].totalSize = 0
    /\ jobs'[id].logs = << >>
    /\ jobs'[id].completedAt = NoDate
    /\ \A k \in DOMAIN jobs : jobs'[k] = jobs[k]
    /\ jsFiles' = jsFiles

\* C23 as stated: every call of createExtractionJob stores and returns a
\* pending job with counters 0, empty logs, no completedAt and a fresh id,
\* whatever the payload carries, and changes no other job and no outcome row.
C23_CreateAlwaysStoresPendingJob ==
    [][called'.method = "createExtractionJob" =>
          ~called'.raised /\ StoredFreshJob(called'.id)]_vars

\* C23 amended: a call of createExtractionJob whose payload URL parses stores
\* and returns such a job, whatever else the payload carries; a call whose
\* payload URL does not parse raises and changes nothing.
C23_CreateStoresPendingJobOrRaises ==
    [][called'.method = "createExtractionJob" =>
          IF PageUrlParses(called'.payload.url)
          THEN ~called'.raised /\ StoredFreshJob(called'.id)
          ELSE called'.raised /\ jobs' = jobs /\ jsFiles' = jsFiles]_vars

C23_Witness ==
    /\ called.method = "createExtractionJob"
    /\ ~called.raised
    /\ DOMAIN called.payload = {"url", "id", "status", "totalFiles",
                                "successfulFiles", "failedFiles", "totalSize",
                                "logs", "completedAt"}
    /\ called.payload.status = "completed"
    /\ called.payload.totalFiles = 3
    /\ jobs[called.id].status = "pending"
    /\ \E k \in DOMAIN jobs : k # called.id /\ jobs[k].status = "completed"
    /\ \E j \in JobIds : jsFiles[j] # << >>

\* C24: a call of updateExtractionJob with an id the store does not have
\* returns undefined without raising, adds no job and changes no job and no
\* outcome row.
C24_UpdateOfAbsentIdIsNoOp ==
    [][(called'.method = "updateExtractionJob" /\ called'.id \notin DOMAIN jobs) =>
          /\ ~called'.raised
          /\ ~called'.found
          /\ called'.job = NoJob
          /\ jobs' = jobs
          /\ jsFiles' = jsFiles]_vars

C24_Witness ==
    /\ called.method = "updateExtractionJob"
    /\ called.payload = [status |-> "completed", successfulFiles |-> 1,
                         completedAt |-> 9]
    /\ ~called.found
    /\ called.id \notin DOMAIN jobs
    /\ \E k \in DOMAIN jobs : jobs[k].status = "pending"
    /\ \E j \in JobIds : jsFiles[j] # << >>

\* C25: a call of updateExtractionJob for a stored job sets exactly the
\* fields of the payload, to the payload's values, and leaves every other
\* field of the job, every other job and every outcome row as it was; it
\* returns the merged job.
C25_UpdateSetsExactlyGivenFields ==
    [][(called'.method = "updateExtractionJob" /\ called'.id \in DOMAIN jobs) =>
          LET id     == called'.id
              fields == called'.payload
          IN  /\ called'.found
              /\ DOMAIN jobs' = DOMAIN jobs
              /\ called'.job = jobs'[id]
              /\ DOMAIN jobs'[id] = DOMAIN jobs[id] \cup DOMAIN fields
              /\ \A f \in DOMAIN fields : jobs'[id][f] = fields[f]
              /\ \A f \in DOMAIN jobs[id] \ DOMAIN fields :
                    jobs'[id][f] = jobs[id][f]
              /\ \A k \in DOMAIN jobs \ {id} : jobs'[k] = jobs[k]
              /\ jsFiles' = jsFiles]_vars

C25_Witness ==
    /\ called.method = "updateExtractionJob"
    /\ called.found
    /\ called.payload = [totalFiles |-> 1]
    /\ called.job.totalFiles = 1
    /\ called.job.status = "completed"
    /\ called.job.completedAt = 9
    /\ called.job.logs = <<SomeEntry>>
    /\ \E k \in DOMAIN jobs : k # called.id /\ jobs[k].status = "processing"
    /\ \E j \in JobIds : jsFiles[j] # << >>

\* C26: in every reachable state of the store, the id field of the job
\* stored under key k is k.
C26_IdFieldEqualsKey ==
    \A k \in DOMAIN jobs : jobs[k].id = k

\* C27: in every reachable state, the jobId of every stored outcome row is
\* the id of a stored job, whatever job ids extractJavaScript is called with.
C27_RowsBelongToStoredJobs ==
    \A j \in JobIds :
        \A i \in 1..Len(jsFiles[j]) : jsFiles[j][i].jobId \in DOMAIN jobs

\* the step is one of the run of job j: extractJavaScript(j, ...) moves on,
\* or a log callback of j is applied
StepOfRun(j) ==
    \/ pc'[j] # pc[j]
    \/ /\ HeadIs("log")
       /\ Head(microtasks).job = j
       /\ microtasks' = Tail(microtasks)

\* C28: under every interleaving of two runs, a step of the run of one job
\* leaves the stored record of the other job (status, counters, logs,
\* completedAt and the rest) and the outcome rows of the other job as they
\* were; both runs use the same domain.
C28_RunsDoNotTouchOtherJob ==
    [][\A j \in JobIds, k \in JobIds :
          (j # k /\ StepOfRun(j)) =>
             /\ Exists(k) => (Exists(k)' /\ jobs'[k] = jobs[k])
             /\ jsFiles'[k] = jsFiles[k]]_vars

C28_Witness ==
    /\ pc["j1"] = "afterSuccessRow"
    /\ pc["j2"] = "jsFetch"
    /\ loc["j1"].outputDir = loc["j2"].outputDir
    /\ jobs["j1"].status = "processing"
    /\ jobs["j2"].status = "processing"
    /\ jobs["j1"].logs # jobs["j2"].logs
    /\ Len(jsFiles["j1"]) = 2
    /\ Len(jsFiles["j2"]) = 1

\* the rows of a job with a size, and the sum of their sizes
SizedRows(rows) == SelectSeq(rows, LAMBDA row : row.size # NoSize)

RECURSIVE SumOfSizes(_)
SumOfSizes(rows) ==
    IF rows = << >> THEN 0 ELSE Head(rows).size + SumOfSizes(Tail(rows))

\* C29: in every state where a job's status is processing, the stored
\* successfulFiles + failedFiles is the number of outcome rows the job has so
\* far and the stored totalSize is the sum of the sizes of these rows.
C29_CountersFollowRowsWhileProcessing ==
    \A j \in DOMAIN jobs :
        jobs[j].status = "processing" =>
            LET rows == getJsFilesByJobId(jsFiles, j)
            IN  /\ jobs[j].successfulFiles + jobs[j].failedFiles = Len(rows)
                /\ jobs[j].totalSize = SumOfSizes(SizedRows(rows))

\* C30: the write-back of a log callback changes no field of the job but
\* logs: status, the counters and completedAt keep the values the updates
\* applied since the log call gave them; in particular the status is not
\* taken back from completed or failed to processing.
C30_LogWriteKeepsOtherFields ==
    [][\A j \in DOMAIN jobs :
          (/\ HeadIs("log")
           /\ Head(microtasks).job = j
           /\ microtasks' = Tail(microtasks)) =>
             /\ j \in DOMAIN jobs'
             /\ \A f \in DOMAIN jobs[j] \ {"logs"} : jobs'[j][f] = jobs[j][f]
             /\ jobs[j].status \in Terminal =>
                   jobs'[j].status = jobs[j].status]_vars

\* the log calls of lines 105 and 111 read the job while it was processing
\* and their write-backs were applied after the update to completed; the log
\* call of line 257 was followed by the update to failed
C30_Witness ==
    /\ microtasks = << >>
    /\ DOMAIN jobs = JobIds
    /\ jobs["j1"].logs # << >>
    /\ jobs["j2"].logs # << >>
    /\ jobs["j1"].status = "completed"
    /\ jobs["j1"].completedAt # NoDate
    /\ jobs["j1"].logs[Len(jobs["j1"].logs)].message =
          "No external .js files found."
    /\ jobs["j2"].status = "failed"
    /\ jobs["j2"].totalFiles = 2
    /\ jobs["j2"].logs[Len(jobs["j2"].logs)].message = "Extraction failed"

\* the log holds the entry addLog was called with: its message and, for the
\* entries of a resource, its index
HasEntry(logs, message, n) ==
    \E k \in 1..Len(logs) : logs[k].message = message /\ logs[k].n = n

\* no log callback of job j is pending
LogWritesApplied(j) ==
    \A k \in 1..Len(microtasks) :
        ~(microtasks[k].kind = "log" /\ microtasks[k].job = j)

\* C31: once a job with N >= 1 discovered resources is completed, its run
\* has returned and every log write of it has been applied, its persisted
\* log holds every entry the run emitted: the start entry, the entries of
\* the setup and of the page, for every index 1..N the progress entry and
\* the success or error entry of that resource, and the final success entry.
C31_LogIsComplete ==
    \A j \in DOMAIN jobs :
        (/\ jobs[j].status = "completed"
         /\ pc[j] = "done"
         /\ LogWritesApplied(j)
         /\ Len(loc[j].jsUrls) >= 1) =>
            LET logs == jobs[j].logs
            IN  /\ HasEntry(logs, "Starting extraction", 0)
                /\ HasEntry(logs, "Created download directory", 0)
                /\ HasEntry(logs, "Fetching page", 0)
                /\ HasEntry(logs, "Saved page HTML", 0)
                /\ HasEntry(logs, "Found n .js files", Len(loc[j].jsUrls))
                /\ \A i \in 1..Len(loc[j].jsUrls) :
                      /\ HasEntry(logs, "[i/n] url", i)
                      /\ HasEntry(logs, "Saved", i) \/ HasEntry(logs, "Error", i)
                /\ HasEntry(logs, "Done", 0)

\* C32: for every index i of a completed job, line i of its manifest is
\* tagged OK and names the local file of outcome row i exactly when row i is
\* a success, and is tagged ERROR and carries the error message of row i
\* exactly when row i is failed; section i of its combined file shows the
\* status of the response (200) for a success, HTTP <code> for a failure
\* with an HTTP status and ERROR for a failure without one.
C32_ManifestAgreesWithRows ==
    \A j \in DOMAIN jobs :
        jobs[j].status = "completed" =>
            LET rows     == getJsFilesByJobId(jsFiles, j)
                lines    == DataLines(loc[j].manifestContent)
                sections == loc[j].combinedContent
            IN  /\ Len(lines) = Len(rows)
                /\ Len(sections) = Len(rows)
                /\ \A i \in 1..Len(rows) :
                      /\ lines[i].n = i
                      /\ sections[i].fileIndex = i
                      /\ lines[i].tag \in {"OK", "ERROR"}
                      /\ lines[i].tag = "OK" <=> rows[i].status = "success"
                      /\ lines[i].tag = "ERROR" <=> rows[i].status = "failed"
                      /\ rows[i].status = "success" =>
                            /\ lines[i].filename = rows[i].filename
                            /\ sections[i].httpStatus =
                                  [literal |-> NoText, code |-> 200]
                      /\ rows[i].status = "failed" =>
                            /\ lines[i].errorMsg = rows[i].errorMessage
                            /\ sections[i].httpStatus =
                                  IF rows[i].errorMessage.status # 0
                                  THEN [literal |-> "HTTP",
                                        code |-> rows[i].errorMessage.status]
                                  ELSE [literal |-> "ERROR", code |-> 0]

C32_Witness ==
    \E j \in DOMAIN jobs :
        /\ jobs[j].status = "completed"
        /\ Len(jsFiles[j]) = 2
        /\ jsFiles[j][1].status = "failed"
        /\ jsFiles[j][1].errorMessage.status = 404
        /\ jsFiles[j][2].status = "success"
        /\ DataLines(loc[j].manifestContent)[1].tag = "ERROR"
        /\ DataLines(loc[j].manifestContent)[2].tag = "OK"
        /\ loc[j].combinedContent[1].httpStatus.literal = "HTTP"

\* the message the preference order gives a failure value: its HTTP status
\* and reason when it carries a response status, else its message when it
\* carries one, else the default text of the catch block
PreferredMsg(error, default) ==
    IF error.hasResponse /\ error.status # 0
    THEN [status |-> error.status,
          text   |-> IF error.statusText # NoText THEN error.statusText
                     ELSE "Request failed"]
    ELSE IF error.message # NoText
         THEN [status |-> 0, text |-> error.message]
         ELSE [status |-> 0, text |-> default]

\* C33: for every caught failure value, both catch blocks give the message
\* of the preference order: HTTP <status> - <reason> when the value carries
\* a response status, else the value's message when it carries one, else
\* Unknown error (Unknown error occurred in the top-level catch).
C33_ClassificationFollowsPreferenceOrder ==
    /\ classified.catch = "resource" =>
          /\ classified.msg.status =
                PreferredMsg(classified.error, "Unknown error").status
          /\ classified.msg.text =
                PreferredMsg(classified.error, "Unknown error").text
    /\ classified.catch = "top" =>
          /\ classified.msg.status =
                PreferredMsg(classified.error, "Unknown error occurred").status
          /\ classified.msg.text =
                PreferredMsg(classified.error, "Unknown error occurred").text

\* the outcome rows of a job with the given status
RowsWithStatus(j, status) ==
    SelectSeq(getJsFilesByJobId(jsFiles, j), LAMBDA row : row.status = status)

\* C34: when a job is completed, successfulFiles is the number of its
\* outcome rows with status success, failedFiles the number with status
\* failed, and totalSize the sum of the sizes of its success rows.
C34_FinalCountersMatchRows ==
    \A j \in DOMAIN jobs :
        jobs[j].status = "completed" =>
            /\ jobs[j].successfulFiles = Len(RowsWithStatus(j, "success"))
            /\ jobs[j].failedFiles = Len(RowsWithStatus(j, "failed"))
            /\ jobs[j].totalSize = SumOfSizes(RowsWithStatus(j, "success"))

C34_Witness ==
    \E j \in DOMAIN jobs :
        /\ jobs[j].status = "completed"
        /\ jobs[j].successfulFiles = 1
        /\ jobs[j].failedFiles = 1
        /\ jobs[j].totalSize = 1
        /\ Len(jsFiles[j]) = 2

\* the resource files the writes of job j have created
ResourceFiles(j) == {f \in written[j] : f.kind = "resource"}

\* C35: the file names of the outcome rows of a job are pairwise distinct,
\* also when discovered URLs share a basename, and every success row has a
\* file of its own: no write of the job replaced a file the job had written.
C35_LocalNamesAreDistinct ==
    \A j \in JobIds :
        LET rows == getJsFilesByJobId(jsFiles, j)
        IN  /\ \A i, k \in 1..Len(rows) :
                  i # k => rows[i].filename # rows[k].filename
            /\ ~InIteration(j) =>
                  Cardinality(ResourceFiles(j)) = Len(RowsWithStatus(j, "success"))

C35_Witness ==
    \E j \in DOMAIN jobs :
        /\ jobs[j].status = "completed"
        /\ Len(jsFiles[j]) = 3
        /\ jsFiles[j][1].originalUrl.path = <<"/", "a", ".", "j", "s">>
        /\ jsFiles[j][2].originalUrl.path = <<"/", "b", "/", "a", ".", "j", "s">>
        /\ jsFiles[j][3].originalUrl.query = <<"?", "v">>
        /\ jsFiles[j][1].filename = <<"0", "0", "1", "_", "a", ".", "j", "s">>
        /\ jsFiles[j][2].filename = <<"0", "0", "2", "_", "a", ".", "j", "s">>
        /\ jsFiles[j][3].filename = <<"0", "0", "3", "_", "a", ".", "j", "s">>

\* the step sends the reply of a rejected creation request
IsRejection == client'.rejected # client.rejected

\* the step starts the extraction run of job j
StartsRun(j) == pc[j] = "idle" /\ pc'[j] # "idle"

\* C36: a rejected creation request (validation fails, or creating the job
\* raises because the URL does not parse) is answered with an error and
\* changes neither the store nor the runs; a run is started only for a job
\* the store has, in the step that sends the reply of its accepted request,
\* and never a second time; once the event loop is idle every stored job has
\* had its run started
C36_RejectedRequestHasNoEffect ==
    /\ [][/\ IsRejection =>
              /\ client'.rejected.code = 400
              /\ jobs' = jobs
              /\ jsFiles' = jsFiles
              /\ pc' = pc
              /\ microtasks' = microtasks
              /\ client'.replied = client.replied
          /\ \A j \in JobIds :
                /\ StartsRun(j) =>
                      /\ j \in DOMAIN jobs
                      /\ client.replied[j] = "none"
                      /\ client'.replied[j] # "none"
                /\ pc[j] # "idle" => pc'[j] # "idle"
                /\ client.replied[j] # "none" =>
                      client'.replied[j] = client.replied[j]]_vars
    /\ [](\A j \in JobIds :
            /\ pc[j] # "idle" => j \in DOMAIN jobs /\ client.replied[j] # "none"
            /\ (Idle /\ j \in DOMAIN jobs) => pc[j] # "idle")

\* the store is empty and nothing runs after a request whose URL a.t/ made
\* createExtractionJob raise
C36_Witness ==
    /\ client.rejected.code = 400
    /\ client.rejected.valid
    /\ ~PageUrlParses(client.rejected.url)
    /\ DOMAIN jobs = {}
    /\ \A j \in JobIds : pc[j] = "idle" /\ client.replied[j] = "none"

\* C37: a client that sends its first GET of a job after the POST reply and
\* repeats it only while the last answer had status processing never gets
\* status pending from a GET, and after the POST reply it eventually gets
\* status completed or failed
C37_PollingClientLearnsOutcome ==
    /\ [](\A j \in JobIds : client.observed[j] # "pending")
    /\ \A j \in JobIds :
          (client.replied[j] # "none") ~> (client.observed[j] \in Terminal)

\* the client has been answered with the outcome of a finished run
C37_Witness ==
    \E j \in JobIds :
       /\ client.replied[j] = "pending"
       /\ client.observed[j] \in Terminal
       /\ j \in DOMAIN jobs
       /\ jobs[j].status = client.observed[j]
       /\ jobs[j].logs # << >>

====
